---- MODULE Spec2Model ----
(***************************************************************************)
(* Model of the checklist / blacklist metadata store (datman/utils.py) and *)
(* of the dashboard reconciliation layer (datman/dashboard.py).            *)
(*                                                                         *)
(* Text is modelled as a sequence of atoms.  An atom is a short string     *)
(* standing for one character or for one unbreakable run of characters     *)
(* ("qc_", ".html", "STU").  A file is the flat text it holds, line breaks *)
(* included, so that reading and writing are conversions between text and  *)
(* dictionaries and not the identity.                                      *)
(***************************************************************************)
EXTENDS Integers, Sequences, FiniteSets, TLC

VARIABLES
    files,        \* path -> text held by the file
    dash_found,   \* dashboard.dash_found
    db,           \* dashboard side of the metadata store
    store,        \* dashboard database: committed rows and unit of work
    pc,           \* process -> position inside its current call
    call,         \* process -> the call it runs (or ran last)
    ret,          \* process -> outcome of its last finished call
    wr,           \* process -> frame of write_metadata
    touched,      \* process -> backends the current call has used
    undisturbed,  \* process -> no other process wrote the file of its call
    ncalls,       \* number of calls started
    fs,           \* filesystem of the pipeline: path -> content
    queue,        \* submission commands run against the queue system
    enigma        \* process -> frame of its dm-proc-enigma run

vars == <<files, dash_found, db, store, pc, call, ret, wr, touched, undisturbed, ncalls,
          fs, queue, enigma>>

(***************************************************************************)
(* Bounds                                                                  *)
(***************************************************************************)
MaxLines == 2
MaxCalls == 2

(***************************************************************************)
(* Text primitives                                                         *)
(***************************************************************************)
NL == "\n"
SP == " "
TAB == "\t"
COMMA == ","
US == "_"

Whitespace == {SP, TAB, NL}

\* Code-point order of the atoms (by their first character).
AtomOrder == <<TAB, NL, SP, COMMA, ".html", "0", "1", "2", "CMH", "PHA",
               "STU", "T1", US, "bad", "d", "qc_", "reason", "series",
               "x", "y">>

AtomRank(a) == CHOOSE i \in 1..Len(AtomOrder) : AtomOrder[i] = a

\* s < t as Python compares strings.
StrLess(s, t) ==
    LET diff == {i \in 1..Len(s) : i > Len(t) \/ s[i] # t[i]}
    IN  IF diff = {} THEN Len(s) < Len(t)
        ELSE LET i == CHOOSE j \in diff : \A k \in diff : j <= k
             IN  i <= Len(t) /\ AtomRank(s[i]) < AtomRank(t[i])

RECURSIVE Cat(_)
Cat(ss) == IF ss = <<>> THEN <<>> ELSE Head(ss) \o Cat(Tail(ss))

\* re.split on a single-character class: every separator cuts, empty
\* fields are kept.
RECURSIVE SplitAt(_, _)
SplitAt(s, seps) ==
    LET cuts == {i \in 1..Len(s) : s[i] \in seps}
    IN  IF cuts = {} THEN <<s>>
        ELSE LET i == CHOOSE j \in cuts : \A k \in cuts : j <= k
             IN  <<SubSeq(s, 1, i - 1)>> \o SplitAt(SubSeq(s, i + 1, Len(s)), seps)

\* str.split() without argument: runs of whitespace cut, no empty field.
PySplit(s) == SelectSeq(SplitAt(s, Whitespace), LAMBDA f : f # <<>>)

LStrip(s) ==
    LET keep == {i \in 1..Len(s) : s[i] \notin Whitespace}
    IN  IF keep = {} THEN <<>>
        ELSE SubSeq(s, CHOOSE i \in keep : \A k \in keep : i <= k, Len(s))

RStrip(s) ==
    LET keep == {i \in 1..Len(s) : s[i] \notin Whitespace}
    IN  IF keep = {} THEN <<>>
        ELSE SubSeq(s, 1, CHOOSE i \in keep : \A k \in keep : k <= i)

Strip(s) == LStrip(RStrip(s))

RECURSIVE Join(_, _)
Join(fields, sep) ==
    IF fields = <<>> THEN <<>>
    ELSE IF Len(fields) = 1 THEN fields[1]
    ELSE fields[1] \o sep \o Join(Tail(fields), sep)

\* file.readlines() / iteration over a file: cut after every line break; a
\* text ending in a line break has no empty last line.
ReadLines(text) ==
    LET parts == SplitAt(text, {NL})
    IN  IF parts[Len(parts)] = <<>>
        THEN SubSeq(parts, 1, Len(parts) - 1)
        ELSE parts

StartsWith(s, prefix) ==
    /\ Len(prefix) <= Len(s)
    /\ SubSeq(s, 1, Len(prefix)) = prefix

(***************************************************************************)
(* Python values                                                           *)
(***************************************************************************)
None == <<>>                 \* None and '' are both false where tested
EmptyDict == [k \in {} |-> <<>>]

Keys(d) == DOMAIN d
DictSet(d, k, v) == (k :> v) @@ d

\* Outcome of a call: a returned value or a raised exception.
NoneVal == [t |-> "None", s |-> <<>>, d |-> EmptyDict, row |-> 0]
StrVal(s) == [t |-> "str", s |-> s, d |-> EmptyDict, row |-> 0]
DictVal(d) == [t |-> "dict", s |-> <<>>, d |-> d, row |-> 0]
\* A row of a table of the database (by its primary key), an exception object.
RowVal(table, id) == [t |-> table, s |-> <<>>, d |-> EmptyDict, row |-> id]
ExcVal(e) == [t |-> e, s |-> <<>>, d |-> EmptyDict, row |-> 0]
Returned(v) == [exc |-> "", val |-> v]
Raised(e) == [exc |-> e, val |-> NoneVal]
\* An exception raised with a message.
RaisedMsg(e, msg) == [exc |-> e, val |-> StrVal(msg)]

(***************************************************************************)
(* datman.scanid                                                           *)
(***************************************************************************)
Digits == {"0", "1", "2"}
Studies == {"STU", "PHA"}
Sites == {"CMH", "PHA"}
Tags == {"T1", "SPRL"}

IsNumber(f) == f # <<>> /\ \A i \in 1..Len(f) : f[i] \in Digits

IdentFields(f) ==
    /\ Len(f) \in {4, 5}
    /\ Len(f[1]) = 1 /\ f[1][1] \in Studies
    /\ Len(f[2]) = 1 /\ f[2][1] \in Sites
    /\ IsNumber(f[3]) \/ f[3] = <<"PHA">>
    /\ IsNumber(f[4])
    /\ Len(f) = 5 => IsNumber(f[5])

\* scanid.parse succeeds.
CanParse(s) == IdentFields(SplitAt(s, {US}))

Identifier(f) ==
    [study |-> f[1], site |-> f[2], subject |-> f[3], timepoint |-> f[4],
     session |-> IF Len(f) = 5 THEN f[5] ELSE <<>>]

parse(s) == Identifier(SplitAt(s, {US}))

get_full_subjectid_with_timepoint(ident) ==
    Join(<<ident.study, ident.site, ident.subject, ident.timepoint>>, <<US>>)

get_full_subjectid_with_timepoint_session(ident) ==
    IF ident.session = <<>>
    THEN get_full_subjectid_with_timepoint(ident)
    ELSE get_full_subjectid_with_timepoint(ident) \o <<US>> \o ident.session

\* Number of fields the identifier takes at the head of a scan name.
IdentLen(f) == IF Len(f) >= 5 /\ IsNumber(f[5]) THEN 5 ELSE 4

\* scanid.parse_filename succeeds: identifier, tag, series, description.
CanParseFilename(s) ==
    LET f == SplitAt(s, {US})
        n == IdentLen(f)
    IN  /\ Len(f) >= n + 3
        /\ IdentFields(SubSeq(f, 1, n))
        /\ Len(f[n + 1]) = 1 /\ f[n + 1][1] \in Tags
        /\ IsNumber(f[n + 2])
        /\ \A i \in (n + 3)..Len(f) : f[i] # <<>>

parse_filename(s) ==
    LET f == SplitAt(s, {US})
        n == IdentLen(f)
    IN  [ident |-> Identifier(SubSeq(f, 1, n)),
         tag |-> f[n + 1],
         series |-> f[n + 2],
         descr |-> Join(SubSeq(f, n + 3, Len(f)), <<US>>)]

(***************************************************************************)
(* utils.validate_subject_id                                               *)
(***************************************************************************)
\* An identifier as a value: its canonical string.
IdentVal(ident) ==
    [t |-> "Identifier", s |-> get_full_subjectid_with_timepoint_session(ident),
     d |-> EmptyDict, row |-> 0]

\* valid_tags maps a study code to the list of its sites.
SiteDefinedMutant(sites, site) == TRUE

SiteDefined(sites, site) == \E i \in 1..Len(sites) : <<sites[i]>> = site

validate_subject_id(subject_id, valid_tags) ==
    IF ~CanParse(subject_id)
    THEN RaisedMsg("RuntimeError", <<"does not match datman convention">>)
    ELSE IF parse(subject_id).study \notin Keys(valid_tags)
    THEN RaisedMsg("RuntimeError", <<"has undefined study code">>)
    ELSE IF ~SiteDefined(valid_tags[parse(subject_id).study], parse(subject_id).site)
    THEN RaisedMsg("RuntimeError", <<"has undefined site">>)
    ELSE Returned(IdentVal(parse(subject_id)))

(***************************************************************************)
(* Reading the file backend                                                *)
(***************************************************************************)
Replace(s, a) == SelectSeq(s, LAMBDA c : c # a)

\* os.path.splitext(s)[0]: cut at the last extension, unless nothing
\* precedes it.
SplitextRoot(s) ==
    LET dots == {i \in 1..Len(s) : s[i] = ".html"}
    IN  IF dots = {} THEN s
        ELSE LET i == CHOOSE j \in dots : \A k \in dots : k <= j
             IN  IF i = 1 THEN s ELSE SubSeq(s, 1, i - 1)

ChecklistSubid(fields) == SplitextRoot(Replace(fields[1], "qc_"))

ChecklistComment(fields) == Strip(Join(Tail(fields), <<SP>>))

\* The duplicate test of both parsers: 'if entries and key in entries'.
IsDuplicateMutant(entries, subject, key) == FALSE

IsDuplicate(entries, subject, key) ==
    subject = None /\ Keys(entries) # {} /\ key \in Keys(entries)

\* The loop of _parse_checklist over the remaining lines; 'entries' is the
\* dictionary built so far (unused when a subject is asked for).
RECURSIVE ParseChecklistLoop(_, _, _)
ParseChecklistLoop(lines, entries, subject) ==
    IF lines = <<>>
    THEN IF subject # None THEN NoneVal ELSE DictVal(entries)
    ELSE LET fields == PySplit(Head(lines))
             rest == Tail(lines)
         IN  IF fields = <<>>
             THEN ParseChecklistLoop(rest, entries, subject)
             ELSE LET subid == ChecklistSubid(fields)
                      comment == ChecklistComment(fields)
                  IN  IF ~CanParse(subid)
                      THEN ParseChecklistLoop(rest, entries, subject)
                      ELSE IF IsDuplicate(entries, subject, subid)
                      THEN ParseChecklistLoop(rest, entries, subject)
                      ELSE IF subject # None
                      THEN IF subid # subject
                           THEN ParseChecklistLoop(rest, entries, subject)
                           ELSE StrVal(comment)
                      ELSE ParseChecklistLoop(rest,
                               DictSet(entries, subid, comment), subject)

\* A line of a checklist whose identifier does not parse.
MalformedChecklistLine(line) ==
    PySplit(line) # <<>> /\ ~CanParse(ChecklistSubid(PySplit(line)))

_parse_checklistMutant(text, subject) ==
    LET lines == ReadLines(text)
        bad == {i \in 1..Len(lines) : MalformedChecklistLine(lines[i])}
    IN  ParseChecklistLoop(IF bad = {} THEN lines
                           ELSE SubSeq(lines, 1, (CHOOSE i \in bad : \A j \in bad : i <= j) - 1),
                           EmptyDict, subject)

_parse_checklist(text, subject) ==
    ParseChecklistLoop(ReadLines(text), EmptyDict, subject)

BlacklistFields(line) == SplitAt(Strip(line), Whitespace \cup {COMMA})

RECURSIVE ParseBlacklistLoop(_, _, _, _)
ParseBlacklistLoop(lines, entries, scan, subject) ==
    IF lines = <<>>
    THEN IF scan # None THEN NoneVal ELSE DictVal(entries)
    ELSE LET fields == BlacklistFields(Head(lines))
             rest == Tail(lines)
             scan_name == fields[1]
             comment == Strip(Join(Tail(fields), <<SP>>))
         IN  IF ~CanParseFilename(scan_name)
             THEN ParseBlacklistLoop(rest, entries, scan, subject)
             ELSE IF scan_name = <<"series">>
             THEN ParseBlacklistLoop(rest, entries, scan, subject)
             ELSE IF scan # None
             THEN IF scan_name = scan
                  THEN StrVal(comment)
                  ELSE ParseBlacklistLoop(rest, entries, scan, subject)
             ELSE IF subject # None /\ ~StartsWith(scan_name, subject)
             THEN ParseBlacklistLoop(rest, entries, scan, subject)
             ELSE IF IsDuplicate(entries, None, scan_name)
             THEN ParseBlacklistLoop(rest, entries, scan, subject)
             ELSE ParseBlacklistLoop(rest,
                      DictSet(entries, scan_name, comment), scan, subject)

_parse_blacklist(text, scan, subject) ==
    ParseBlacklistLoop(ReadLines(text), EmptyDict, scan, subject)

(***************************************************************************)
(* Example identifiers, scan names and lines                               *)
(***************************************************************************)
ID1 == <<"STU", US, "CMH", US, "1", US, "1">>
ID2 == <<"STU", US, "CMH", US, "2", US, "1">>
ID1S == ID1 \o <<US, "1">>               \* ID1 with a session number
ID11 == ID1 \o <<"1">>                   \* another timepoint; ID1 is a prefix
BAD == <<"bad">>

ScanOf(id) == id \o <<US, "T1", US, "2", US, "d">>
SCAN1 == ScanOf(ID1S)
SCAN2 == ScanOf(ID2 \o <<US, "1">>)
SCAN11 == ScanOf(ID11 \o <<US, "1">>)

ChecklistPool ==
    { <<"qc_">> \o ID1 \o <<".html", SP, "x">>,
      ID1 \o <<TAB, "y", SP, SP, "x">>,
      <<"qc_">> \o ID1S \o <<".html", SP, "y">>,
      <<"qc_">> \o ID2 \o <<".html">>,
      <<"qc_">> \o BAD \o <<".html", SP, "x">> }

BlacklistPool ==
    { <<"series", TAB, "reason">>,
      SCAN1 \o <<SP, "x">>,
      SCAN1 \o <<SP, "y", COMMA, "x">>,
      SCAN2 \o <<SP, "x">>,
      SCAN11 \o <<TAB, "y">>,
      BAD \o <<SP, "x">> }

\* Texts of at most n lines of the pool, every line ended by a line break.
RECURSIVE TextsOf(_, _)
TextsOf(pool, n) ==
    IF n = 0 THEN { <<>> }
    ELSE LET shorter == TextsOf(pool, n - 1)
         IN  shorter \cup { l \o <<NL>> \o t : l \in pool, t \in shorter }

(***************************************************************************)
(* Dashboard side of the metadata store                                    *)
(***************************************************************************)
Procs == {"p1", "p2"}

CHECKLIST == "checklist.csv"
BLACKLIST == "blacklist.csv"

Session(signed_off, reviewer) == [signed_off |-> signed_off, reviewer |-> reviewer]

\* sessions: full session name -> sign-off; blacklist: scan name -> comment;
\* scans: scan names the database holds.
InitDb ==
    [sessions |-> (ID1S :> Session(TRUE, <<"x">>)) @@ (ID2 \o <<US, "1">> :> Session(FALSE, <<>>)),
     scans |-> {SCAN1, SCAN2},
     blacklist |-> SCAN2 :> <<"y">>,
     user |-> <<"y">>]

\* dashboard.get_session: the session of that name; without a session
\* number, the first session of the timepoint.
SessionsOf(d, timepoint) ==
    {n \in Keys(d.sessions) : get_full_subjectid_with_timepoint(parse(n)) = timepoint}

FirstSession(d, timepoint) ==
    CHOOSE n \in SessionsOf(d, timepoint) :
        \A m \in SessionsOf(d, timepoint) : n = m \/ StrLess(n, m)

get_session(d, name) ==
    IF name \in Keys(d.sessions) THEN name
    ELSE IF SessionsOf(d, name) # {} THEN FirstSession(d, name)
    ELSE None

SessionComment(d, n) ==
    IF d.sessions[n].signed_off THEN d.sessions[n].reviewer ELSE <<>>

is_phantom(name) == parse(name).subject = <<"PHA">>

Timepoints(d) ==
    {get_full_subjectid_with_timepoint(parse(n)) : n \in Keys(d.sessions)}

_fetch_checklist(d, subject) ==
    IF subject # None
    THEN IF get_session(d, subject) = None
         THEN NoneVal
         ELSE StrVal(SessionComment(d, get_session(d, subject)))
    ELSE DictVal([t \in {u \in Timepoints(d) : ~is_phantom(u)} |->
                     SessionComment(d, FirstSession(d, t))])

_fetch_blacklist(d, scan, subject) ==
    IF scan # None
    THEN IF scan \in Keys(d.blacklist) THEN StrVal(d.blacklist[scan]) ELSE NoneVal
    ELSE DictVal([n \in {m \in Keys(d.blacklist) :
                            subject = None \/ StartsWith(m, subject)} |->
                     d.blacklist[n]])

(***************************************************************************)
(* read_checklist, read_blacklist, get_subject_metadata                    *)
(***************************************************************************)
FILE == "file"
DASHBOARD == "dashboard"

Outcome(r, t) == [ret |-> r, touched |-> t]

\* 'if dashboard.dash_found and not path'
UseDashboardMutant(dash, path) == dash

UseDashboard(dash, path) == dash /\ ~path

\* The subject a checklist file is searched for (no session number).
ChecklistKeyMutant(subject) ==
    get_full_subjectid_with_timepoint_session(parse(subject))

ChecklistKey(subject) == get_full_subjectid_with_timepoint(parse(subject))

read_checklist(text, d, dash, subject, path) ==
    IF subject # None /\ ~CanParse(subject)
    THEN Outcome(Raised("ParseException"), {})
    ELSE IF UseDashboard(dash, path)
    THEN Outcome(Returned(_fetch_checklist(d,
                     IF subject = None THEN None
                     ELSE get_full_subjectid_with_timepoint_session(parse(subject)))),
                 {DASHBOARD})
    ELSE Outcome(Returned(_parse_checklist(text,
                     IF subject = None THEN None ELSE ChecklistKey(subject))),
                 {FILE})

\* "_".join([str(ident), tag, series, descr])
ScanName(f) ==
    Join(<<get_full_subjectid_with_timepoint_session(f.ident), f.tag,
           f.series, f.descr>>, <<US>>)

read_blacklist(text, d, dash, scan, subject, path) ==
    IF UseDashboard(dash, path)
    THEN Outcome(Returned(_fetch_blacklist(d, scan, subject)), {DASHBOARD})
    ELSE IF scan # None /\ ~CanParseFilename(scan)
    THEN Outcome(Returned(NoneVal), {})
    ELSE Outcome(Returned(_parse_blacklist(text,
                     IF scan = None THEN None ELSE ScanName(parse_filename(scan)),
                     subject)),
                 {FILE})

\* The subjects that get a key: 'if checklist[subid]'.
SignedOffMutant(checklist) == Keys(checklist)

SignedOff(checklist) == {k \in Keys(checklist) : checklist[k] # <<>>}

\* The loop of get_subject_metadata over the blacklist entries not yet
\* visited; a value of all_qc is the collection of appended scan names
\* (a dictionary is visited in no fixed order, so the list is kept as a set).
RECURSIVE SubjectMetadataLoop(_, _)
SubjectMetadataLoop(todo, all_qc) ==
    IF todo = {} THEN all_qc
    ELSE LET bl_entry == CHOOSE b \in todo : TRUE
             rest == todo \ {bl_entry}
         IN  IF ~CanParseFilename(bl_entry)
             THEN SubjectMetadataLoop(rest, all_qc)
             ELSE LET subid == get_full_subjectid_with_timepoint(
                                   parse_filename(bl_entry).ident)
                  IN  IF subid \notin Keys(all_qc)
                      THEN SubjectMetadataLoop(rest, all_qc)
                      ELSE SubjectMetadataLoop(rest,
                               DictSet(all_qc, subid, all_qc[subid] \cup {bl_entry}))

\* get_subject_metadata, lines 503-509: the entries of the blacklist that
\* are logged as '... does not appear in QC checklist', those whose subject
\* is no key of all_qc.
ReportedMissing(blacklist, all_qc) ==
    {bl_entry \in Keys(blacklist) :
        /\ CanParseFilename(bl_entry)
        /\ get_full_subjectid_with_timepoint(parse_filename(bl_entry).ident) \notin Keys(all_qc)}

get_subject_metadata(ctext, btext, d, dash) ==
    LET checklist == read_checklist(ctext, d, dash, None, FALSE)
        blacklist == read_blacklist(btext, d, dash, None, None, FALSE)
    IN  Outcome(Returned(DictVal(SubjectMetadataLoop(
                    Keys(blacklist.ret.val.d),
                    [k \in SignedOff(checklist.ret.val.d) |-> {}]))),
                checklist.touched \cup blacklist.touched)

(***************************************************************************)
(* update_checklist, update_blacklist                                      *)
(***************************************************************************)
\* sorted(lines): the lines in ascending order.
RECURSIVE Sorted(_)
Sorted(lines) ==
    IF lines = {} THEN <<>>
    ELSE LET least == CHOOSE l \in lines : \A m \in lines : l = m \/ StrLess(l, m)
         IN  <<least>> \o Sorted(lines \ {least})

\* old_entries[key] = value
MergeEntryMutant(old_entries, key, value) ==
    IF key \in Keys(old_entries) THEN old_entries ELSE DictSet(old_entries, key, value)

MergeEntry(old_entries, key, value) == DictSet(old_entries, key, value)

RECURSIVE MergeAll(_, _, _)
MergeAll(old_entries, keys, values) ==
    IF keys = {} THEN old_entries
    ELSE LET k == CHOOSE x \in keys : TRUE
         IN  MergeAll(MergeEntry(old_entries, k, values[k]), keys \ {k}, values)

\* The exception the merge loop of update_checklist raises at a subject,
\* "" if none: an identifier that does not parse, or one whose form without
\* session number is not a key of the delta.
ChecklistEntryError(entries, subject) ==
    IF ~CanParse(subject) THEN "MetadataException"
    ELSE IF get_full_subjectid_with_timepoint(parse(subject)) \notin Keys(entries)
    THEN "KeyError"
    ELSE ""

\* The merge loop of update_checklist.  A dictionary is visited in no fixed
\* order: with several failing keys, any of them may be met first.
MergeChecklist(old_entries, entries) ==
    LET failing == {k \in Keys(entries) : ChecklistEntryError(entries, k) # ""}
        short == {get_full_subjectid_with_timepoint(parse(k)) : k \in Keys(entries)}
    IN  IF failing # {}
        THEN {[exc |-> ChecklistEntryError(entries, k), d |-> old_entries] : k \in failing}
        ELSE {[exc |-> "", d |-> MergeAll(old_entries, short, entries)]}

ChecklistLine(sub, comment) ==
    <<"qc_">> \o sub \o <<".html", SP>> \o comment \o <<NL>>

ChecklistFileLinesMutant(d) ==
    LET lines == Sorted({ChecklistLine(sub, d[sub]) : sub \in Keys(d)})
    IN  [i \in 1..Len(lines) |-> lines[Len(lines) + 1 - i]]

ChecklistFileLines(d) == Sorted({ChecklistLine(sub, d[sub]) : sub \in Keys(d)})

\* 'if not entries[scan_name]': an empty reason is skipped.
EmptyReasonMutant(reason) == FALSE

EmptyReason(reason) == reason = <<>>

\* The merge loop of update_blacklist.
MergeBlacklist(old_entries, entries) ==
    LET failing == {k \in Keys(entries) : ~CanParseFilename(k)}
        kept == {k \in Keys(entries) : ~EmptyReason(entries[k])}
    IN  IF failing # {}
        THEN {[exc |-> "MetadataException", d |-> old_entries]}
        ELSE {[exc |-> "", d |-> MergeAll(old_entries, kept, entries)]}

BlacklistLine(sub, comment) == sub \o <<SP>> \o comment \o <<NL>>

BlacklistFileLinesMutant(d) ==
    Sorted({BlacklistLine(sub, d[sub]) : sub \in Keys(d)}) \o << <<"series", TAB, "reason", NL>> >>

BlacklistFileLines(d) ==
    << <<"series", TAB, "reason", NL>> >> \o
    Sorted({BlacklistLine(sub, d[sub]) : sub \in Keys(d)})

\* _update_qc_reviewers: the sessions of every subject of the delta that has
\* a comment are signed off by the default user, unless already reviewed.
SignOffMutant(d, names) ==
    [d EXCEPT !.sessions =
        [n \in Keys(d.sessions) |->
            IF n \in names THEN Session(TRUE, d.user) ELSE d.sessions[n]]]

SignOff(d, names) ==
    [d EXCEPT !.sessions =
        [n \in Keys(d.sessions) |->
            IF n \in names /\ ~d.sessions[n].signed_off
            THEN Session(TRUE, d.user)
            ELSE d.sessions[n]]]

RECURSIVE UpdateQcLoop(_, _, _)
UpdateQcLoop(d, order, entries) ==
    IF order = <<>> THEN [exc |-> "", db |-> d]
    ELSE LET subject == Head(order)
         IN  IF ~CanParse(subject) \/ SessionsOf(d, subject) = {}
             THEN [exc |-> "MetadataException", db |-> d]
             ELSE IF entries[subject] = <<>>
             THEN UpdateQcLoop(d, Tail(order), entries)
             ELSE UpdateQcLoop(SignOff(d, SessionsOf(d, subject)), Tail(order), entries)

Orders(S) == {o \in [1..Cardinality(S) -> S] : \A i, j \in DOMAIN o : i # j => o[i] # o[j]}

_update_qc_reviewers(d, entries) ==
    IF d.user = None
    THEN {[exc |-> "MetadataException", db |-> d]}
    ELSE {UpdateQcLoop(d, o, entries) : o \in Orders(Keys(entries))}

\* _update_scan_checklist: every scan of the delta gets the comment as its
\* checklist entry.
RECURSIVE UpdateScanLoop(_, _, _)
UpdateScanLoop(d, order, entries) ==
    IF order = <<>> THEN [exc |-> "", db |-> d]
    ELSE LET scan_name == Head(order)
         IN  IF scan_name \notin d.scans
             THEN [exc |-> "MetadataException", db |-> d]
             ELSE UpdateScanLoop(
                      [d EXCEPT !.blacklist = DictSet(d.blacklist, scan_name, entries[scan_name])],
                      Tail(order), entries)

_update_scan_checklist(d, entries) ==
    IF d.user = None
    THEN {[exc |-> "MetadataException", db |-> d]}
    ELSE {UpdateScanLoop(d, o, entries) : o \in Orders(Keys(entries))}

(***************************************************************************)
(* The dashboard database (datman/dashboard.py)                            *)
(***************************************************************************)
STUDY == <<"STU">>

\* Rows of the tables Session, Scan and Session_Scan.
SessionRow(id, study, name, site, date, cl_comment, phantom) ==
    [id |-> id, study |-> study, name |-> name, site |-> site, date |-> date,
     cl_comment |-> cl_comment, is_phantom |-> phantom,
     is_repeated |-> FALSE, repeat_count |-> 1]

ScanRow(id, name, series_number, scantype, description, repeat_number) ==
    [id |-> id, name |-> name, series_number |-> series_number,
     scantype |-> scantype, description |-> description,
     repeat_number |-> repeat_number, bl_comment |-> None]

LinkRow(scan_id, session_id, is_primary, scan_name) ==
    [scan_id |-> scan_id, session_id |-> session_id,
     is_primary |-> is_primary, scan_name |-> scan_name]

\* The tables: the study of the dashboard object with its sites and scan
\* types, the scan types known at all, sessions, scans and their links.
Tables(sites, scantypes, study_scantypes, sessions, scans, links) ==
    [study |-> STUDY, sites |-> sites, scantypes |-> scantypes,
     study_scantypes |-> study_scantypes,
     sessions |-> sessions, scans |-> scans, links |-> links]

\* What is committed, and what the database session of the process holds
\* (the committed rows with the changes added and not yet committed).
Database(tables) == [committed |-> tables, session |-> tables]

NoStore == Database(Tables({}, {}, {}, {}, {}, {}))

\* The primary key a new row of the table gets: one more than the largest.
NewId(rows) ==
    LET ids == {0} \cup {r.id : r \in rows}
    IN  (CHOOSE n \in ids : \A m \in ids : m <= n) + 1

Row(rows, id) == CHOOSE r \in rows : r.id = id

Put(rows, r) == {x \in rows : x.id # r.id} \cup {r}

\* int(s) of a string of digits.
DigitValue == ("0" :> 0) @@ ("1" :> 1) @@ ("2" :> 2)

RECURSIVE IntOf(_)
IntOf(s) ==
    IF s = <<>> THEN 0
    ELSE 10 * IntOf(SubSeq(s, 1, Len(s) - 1)) + DigitValue[s[Len(s)]]

\* datetime.strptime(date, '%Y-%m-%d') and datetime.strftime(date, '%Y-%m-%d');
\* a date is <<year, month, day>>.
DASH == "-"
Years == ("2020" :> 2020)
Months == ("01" :> 1)
Days == ("01" :> 1) @@ ("02" :> 2)

CanParseDate(s) ==
    LET f == SplitAt(s, {DASH})
    IN  /\ Len(f) = 3
        /\ \A i \in 1..3 : Len(f[i]) = 1
        /\ f[1][1] \in DOMAIN Years
        /\ f[2][1] \in DOMAIN Months
        /\ f[3][1] \in DOMAIN Days

strptime(s) ==
    LET f == SplitAt(s, {DASH})
    IN  <<Years[f[1][1]], Months[f[2][1]], Days[f[3][1]]>>

Formatted(table, n) == CHOOSE a \in DOMAIN table : table[a] = n

\* strftime of None is a TypeError, which leaves the empty string.
strftime(date) ==
    IF date = None THEN <<>>
    ELSE <<Formatted(Years, date[1]), DASH, Formatted(Months, date[2]), DASH,
           Formatted(Days, date[3])>>

\* datman.utils.check_checklist, check_blacklist: the comment that the file
\* of the study holds for the session or the scan, None when it has no
\* entry, a ValueError when the name or the file cannot be read.
check_checklist(text, readable, session_name) ==
    IF ~readable \/ ~CanParse(session_name)
    THEN Raised("ValueError")
    ELSE Returned(_parse_checklist(text, session_name))

check_blacklist(text, readable, scan_name) ==
    IF ~readable \/ ~CanParseFilename(scan_name)
    THEN Raised("ValueError")
    ELSE Returned(_parse_blacklist(text, scan_name, None))

\* Result of a call on the dashboard: its outcome and the database after it.
Result(r, st) == [ret |-> r, store |-> st]

UNBOUND == 0     \* a local variable that no statement has assigned

NoRepeat == -1   \* the repeat number None, of a scan or of a phantom session

\* Session.query.filter(Session.study == self.study)
\*              .filter(Session.name == session_name)
SessionQueryMutant(s, session_name) == {}

SessionQuery(s, session_name) ==
    {r \in s.sessions : r.study = s.study /\ r.name = session_name}

\* get_add_session, lines 69-109, where a session is found or is to be
\* created: the tables after it and the row bound to dashboard_session.
FindOrCreateSession(s, session_name, date) ==
    LET qry == SessionQuery(s, session_name)
    IN  IF Cardinality(qry) = 1
        THEN LET dashboard_session == CHOOSE r \in qry : TRUE
             IN  [tables |->
                      IF date # None /\ strftime(dashboard_session.date) # strftime(date)
                      THEN [s EXCEPT !.sessions =
                               Put(@, [dashboard_session EXCEPT !.date = date])]
                      ELSE s,
                  row |-> dashboard_session.id]
        ELSE IF Cardinality(qry) < 1
        THEN LET id == NewId(s.sessions)
             IN  [tables |->
                      [s EXCEPT !.sessions = @ \cup
                          {SessionRow(id, s.study, session_name,
                                      parse(session_name).site, date, None,
                                      is_phantom(session_name))}],
                  row |-> id]
        ELSE [tables |-> s, row |-> UNBOUND]

\* get_add_session, lines 110-131: the comment of the checklist is copied
\* to the session and the changes are committed.
SyncChecklistMutant(st, b, text, session_name, readable, commit_ok) ==
    LET cl == check_checklist(text, readable, session_name)
        cl_comment == cl.val.s
        pending == [st EXCEPT !.session = b.tables]
    IN  IF cl.exc # "" \/ b.row = UNBOUND
        THEN Result(Raised("UnboundLocalError"), pending)
        ELSE LET s == [b.tables EXCEPT !.sessions =
                          Put(@, [Row(@, b.row) EXCEPT !.cl_comment = cl_comment])]
             IN  IF ~commit_ok
                 THEN Result(Returned(NoneVal), Database(st.committed))
                 ELSE Result(Returned(RowVal("Session", b.row)), Database(s))

SyncChecklist(st, b, text, session_name, readable, commit_ok) ==
    LET cl == check_checklist(text, readable, session_name)
        cl_comment == cl.val.s
        pending == [st EXCEPT !.session = b.tables]
    IN  IF cl.exc # ""
        THEN Result(Raised("UnboundLocalError"), pending)
        ELSE IF cl_comment # None /\ b.row = UNBOUND
        THEN Result(Raised("UnboundLocalError"), pending)
        ELSE LET s == IF cl_comment # None
                         /\ cl_comment # Row(b.tables.sessions, b.row).cl_comment
                      THEN [b.tables EXCEPT !.sessions =
                               Put(@, [Row(@, b.row) EXCEPT !.cl_comment = cl_comment])]
                      ELSE b.tables
             IN  IF ~commit_ok
                 THEN Result(Returned(NoneVal), Database(st.committed))
                 ELSE IF b.row = UNBOUND
                 THEN Result(Raised("UnboundLocalError"), Database(s))
                 ELSE Result(Returned(RowVal("Session", b.row)), Database(s))

\* 'if not dashboard_site': no site of the study has the name of the site
\* of the identifier.
InvalidSiteMutant(s, ident) == FALSE

InvalidSite(s, ident) == {site \in s.sites : site = ident.site} = {}

get_add_session(st, text, session_name, date, create, readable, commit_ok) ==
    LET s == st.session
    IN  IF s.study = None
        THEN Result(Returned(ExcVal("DashboardException")), st)
        ELSE IF ~CanParse(session_name)
        THEN Result(RaisedMsg("DashboardException", <<"Invalid session name:">> \o session_name), st)
        ELSE IF InvalidSite(s, parse(session_name))
        THEN Result(RaisedMsg("DashboardException", <<"Invalid site">>), st)
        ELSE IF date # None /\ ~CanParseDate(date)
        THEN Result(RaisedMsg("DashboardException", <<"Invalid date">>), st)
        ELSE IF Cardinality(SessionQuery(s, session_name)) < 1 /\ ~create
        THEN Result(Returned(NoneVal), st)
        ELSE SyncChecklist(st,
                 FindOrCreateSession(s, session_name,
                     IF date = None THEN None ELSE strptime(date)),
                 text, session_name, readable, commit_ok)

\* The query of get_add_scan: the scans joined to their links and sessions
\* that have the name of the session, the study and the scan id, and the
\* repeat number when the identifier has a session number.
ScanQuery(s, session_name, scan_id, session) ==
    {q \in s.scans \X s.links \X s.sessions :
        /\ q[2].scan_id = q[1].id
        /\ q[2].session_id = q[3].id
        /\ q[3].name = session_name
        /\ q[3].study = s.study
        /\ q[1].name = scan_id
        /\ session # None => q[1].repeat_number = IntOf(session)}

\* 'elif qry.count() > 1'
NotUniqueMutant(count) == count > 2

NotUnique(count) == count > 1

\* get_add_scan, lines 224-229: the error that is logged when the file has
\* no comment and the scan has one.
DivergenceLogged(bl_comment, stored) == bl_comment = None /\ bl_comment # stored

\* get_add_scan, lines 216-238: the comment of the blacklist is copied to
\* the scan and the changes are committed.
SyncBlacklistMutant(st, id, text, scan_name, readable, commit_ok) ==
    LET bl == check_blacklist(text, readable, scan_name)
    IN  IF bl.exc # ""
        THEN Result(Raised("DashboardException"), st)
        ELSE IF ~commit_ok
        THEN Result(Raised("DashboardException"), Database(st.committed))
        ELSE Result(Returned(RowVal("Scan", id)),
                    Database([st.session EXCEPT !.scans =
                        Put(@, [Row(@, id) EXCEPT !.bl_comment = bl.val.s])]))

SyncBlacklist(st, id, text, scan_name, readable, commit_ok) ==
    LET bl == check_blacklist(text, readable, scan_name)
        bl_comment == bl.val.s
        dashboard_scan == Row(st.session.scans, id)
    IN  IF bl.exc # ""
        THEN Result(Raised("DashboardException"), st)
        ELSE LET s == IF bl_comment # None /\ bl_comment # dashboard_scan.bl_comment
                      THEN [st.session EXCEPT !.scans =
                               Put(@, [dashboard_scan EXCEPT !.bl_comment = bl_comment])]
                      ELSE st.session
             IN  IF ~commit_ok
                 THEN Result(Raised("DashboardException"), Database(st.committed))
                 ELSE Result(Returned(RowVal("Scan", id)), Database(s))

\* get_add_scan, lines 172-214: the session is found or created, then the
\* scan and its primary link are added.
CreateScanMutant(st, ctext, btext, scan_name, scan_id, session_name, readable, session_commit_ok, commit_ok) ==
    LET f == parse_filename(scan_name)
        a == get_add_session(st, ctext, session_name, None, TRUE, readable,
                             session_commit_ok)
        s == a.store.session
        id == NewId(s.scans)
        dashboard_scan ==
            ScanRow(id, scan_id, f.series, f.tag, f.descr,
                    IF f.ident.session # None THEN IntOf(f.ident.session) ELSE NoRepeat)
        added == [s EXCEPT !.scans = @ \cup {dashboard_scan}]
    IN  IF a.ret.exc # ""
        THEN a
        ELSE IF f.tag \notin s.scantypes
        THEN Result(RaisedMsg("DashboardException", <<"Invalid scantype">>), a.store)
        ELSE IF f.tag \notin s.study_scantypes
        THEN Result(RaisedMsg("DashboardException", <<"Invalid scantype">>), Database(added))
        ELSE IF a.ret.val.t # "Session"
        THEN Result(Raised("AttributeError"), [a.store EXCEPT !.session = added])
        ELSE SyncBlacklist(
                 [a.store EXCEPT !.session =
                     [added EXCEPT !.links = @ \cup
                         {LinkRow(id, a.ret.val.row, TRUE, scan_id)}]],
                 id, btext, scan_name, readable, commit_ok)

CreateScan(st, ctext, btext, scan_name, scan_id, session_name, readable, session_commit_ok, commit_ok) ==
    LET f == parse_filename(scan_name)
        a == get_add_session(st, ctext, session_name, None, TRUE, readable,
                             session_commit_ok)
        s == a.store.session
        id == NewId(s.scans)
        dashboard_scan ==
            ScanRow(id, scan_id, f.series, f.tag, f.descr,
                    IF f.ident.session # None THEN IntOf(f.ident.session) ELSE NoRepeat)
        added == [s EXCEPT !.scans = @ \cup {dashboard_scan}]
    IN  IF a.ret.exc # ""
        THEN a
        ELSE IF f.tag \notin s.scantypes
        THEN Result(RaisedMsg("DashboardException", <<"Invalid scantype">>), a.store)
        ELSE IF f.tag \notin s.study_scantypes
        THEN Result(RaisedMsg("DashboardException", <<"Invalid scantype">>), a.store)
        ELSE IF a.ret.val.t # "Session"
        THEN Result(Raised("AttributeError"), [a.store EXCEPT !.session = added])
        ELSE SyncBlacklist(
                 [a.store EXCEPT !.session =
                     [added EXCEPT !.links = @ \cup
                         {LinkRow(id, a.ret.val.row, TRUE, scan_id)}]],
                 id, btext, scan_name, readable, commit_ok)

get_add_scan(st, ctext, btext, scan_name, create, readable, session_commit_ok, commit_ok) ==
    IF st.session.study = None
    THEN Result(RaisedMsg("DashboardException", <<"Study not set">>), st)
    ELSE IF ~CanParseFilename(scan_name)
    THEN Result(RaisedMsg("DashboardException", <<"Invalid scan_name">>), st)
    ELSE LET f == parse_filename(scan_name)
             scan_id == Join(<<get_full_subjectid_with_timepoint_session(f.ident),
                               f.tag, f.series>>, <<US>>)
             session_name == get_full_subjectid_with_timepoint(f.ident)
             qry == ScanQuery(st.session, session_name, scan_id, f.ident.session)
         IN  IF Cardinality(qry) = 1
             THEN SyncBlacklist(st, (CHOOSE q \in qry : TRUE)[1].id, btext,
                                scan_name, readable, commit_ok)
             ELSE IF NotUnique(Cardinality(qry))
             THEN Result(RaisedMsg("DashboardException", <<"Scan not unique">>), st)
             ELSE IF ~create
             THEN Result(Returned(NoneVal), st)
             ELSE CreateScan(st, ctext, btext, scan_name, scan_id, session_name,
                             readable, session_commit_ok, commit_ok)

\* is_linked: the link is not primary, or the type of its scan is SPRL.
SPRL == <<"SPRL">>

is_linked(s, link) ==
    \/ ~link.is_primary
    \/ Row(s.scans, link.scan_id).scantype = SPRL

\* delete_extra_scans, lines 267-271: the name of the scan that
\* get_add_scan has found is added to scan_names; a call that raises, or
\* finds no scan, is passed over.
Listed(g, scan_names) ==
    [scan_names |->
         IF g.ret.exc = "" /\ g.ret.val.t = "Scan"
         THEN scan_names \cup {Row(g.store.session.scans, g.ret.val.row).name}
         ELSE scan_names,
     store |-> g.store]

\* delete_extra_scans, lines 265-271: get_add_scan for every name of the
\* list, in its order; acc holds the names of the scans found so far and
\* the database after the calls.
RECURSIVE ListedScans(_, _, _, _, _, _)
ListedScans(acc, ctext, btext, scanlist, readable, commit_ok) ==
    IF scanlist = <<>>
    THEN acc
    ELSE ListedScans(
             CHOOSE next \in
                 {Listed(g, acc.scan_names) :
                    g \in {get_add_scan(acc.store, ctext, btext, Head(scanlist),
                                        FALSE, readable, TRUE, commit_ok)}} : TRUE,
             ctext, btext, Tail(scanlist), readable, commit_ok)

\* delete_extra_scans, lines 275-279: the names of the scans of the session
\* that are not linked, have the repeat number and are not in scan_names.
ExtraScans(s, db_session, repeat, scan_names) ==
    LET source_scans == {l \in s.links : l.session_id = db_session /\ ~is_linked(s, l)}
        session_scans == {Row(s.scans, l.scan_id) : l \in source_scans}
        db_scans == {scan.name : scan \in {x \in session_scans : x.repeat_number = repeat}}
    IN  db_scans \ scan_names

\* delete_extra_scans, lines 281-286: for every extra name, in any order,
\* the first scan of that name (the query has no order) and the first link
\* of it to the session are deleted.  The outcomes: the exception, if any,
\* and the tables of the unit of work.
RECURSIVE DeleteLoop(_, _, _)
DeleteLoop(s, db_session, extra_scans) ==
    IF extra_scans = {}
    THEN {[exc |-> "", tables |-> s]}
    ELSE UNION {
           LET named == {x \in s.scans : x.name = scan}
           IN  IF named = {}
               THEN {[exc |-> "AttributeError", tables |-> s]}
               ELSE UNION {
                      LET qry == {l \in s.links : l.scan_id = db_scan.id
                                                  /\ l.session_id = db_session}
                      IN  IF qry = {}
                          THEN {[exc |-> "UnmappedInstanceError", tables |-> s]}
                          ELSE UNION {
                                 DeleteLoop([s EXCEPT !.links = @ \ {link},
                                                      !.scans = @ \ {db_scan}],
                                            db_session, extra_scans \ {scan})
                                 : link \in qry}
                      : db_scan \in named}
           : scan \in extra_scans}

\* 'db.session.commit()' of line 287, which nothing catches.
CommitDeletions(st, d, commit_ok) ==
    IF d.exc # ""
    THEN Result(Raised(d.exc), [st EXCEPT !.session = d.tables])
    ELSE IF ~commit_ok
    THEN Result(Raised("SQLAlchemyError"), Database(st.committed))
    ELSE Result(Returned(NoneVal), Database(d.tables))

\* delete_extra_scans, lines 273-287, with the session a and the listed
\* scans b: a session that is None has no scans.
DeleteUnlisted(a, b, repeat, commit_ok) ==
    IF a.ret.val.t # "Session"
    THEN {Result(Raised("AttributeError"), b.store)}
    ELSE {CommitDeletions(b.store, d, commit_ok) :
            d \in DeleteLoop(b.store.session, a.ret.val.row,
                             ExtraScans(b.store.session, a.ret.val.row, repeat,
                                        b.scan_names))}

\* delete_extra_scans, lines 264-287, with the outcome a of get_add_session.
DeleteOfSession(a, ctext, btext, scanlist, repeat, readable, scan_commit_ok, commit_ok) ==
    IF a.ret.exc # ""
    THEN {a}
    ELSE UNION {DeleteUnlisted(a, b, repeat, commit_ok) :
                  b \in {ListedScans([scan_names |-> {}, store |-> a.store],
                                     ctext, btext, scanlist, readable,
                                     scan_commit_ok)}}

\* The outcomes of delete_extra_scans.  A session label without session
\* number has the empty session, of which int() is a ValueError.
delete_extra_scans(st, ctext, btext, session_label, scanlist, cl_readable, bl_readable, session_commit_ok, scan_commit_ok, commit_ok) ==
    IF ~CanParse(session_label)
    THEN {Result(RaisedMsg("DashboardException",
                           <<"Invalid session name:">> \o session_label), st)}
    ELSE IF ~is_phantom(session_label) /\ parse(session_label).session = <<>>
    THEN {Result(Raised("ValueError"), st)}
    ELSE UNION {DeleteOfSession(a, ctext, btext, scanlist,
                                IF is_phantom(session_label) THEN NoRepeat
                                ELSE IntOf(parse(session_label).session),
                                bl_readable, scan_commit_ok, commit_ok) :
                  a \in {get_add_session(st, ctext,
                             get_full_subjectid_with_timepoint(parse(session_label)),
                             None, FALSE, cl_readable, session_commit_ok)}}

\* get_add_session_scan_link: the link of the session to the scan if the
\* database session has exactly one; otherwise a link that is not primary
\* is added, under the new name or the name of the scan, and committed.
get_add_session_scan_link(st, target_session, scan, new_name, commit_ok) ==
    LET qry == {l \in st.session.links :
                  l.session_id = target_session.id /\ l.scan_id = scan.id}
        link == LinkRow(scan.id, target_session.id, FALSE,
                        IF new_name # None THEN new_name ELSE scan.name)
        added == [st.session EXCEPT !.links = @ \cup {link}]
    IN  IF Cardinality(qry) = 1
        THEN Result(Returned(RowVal("Session_Scan", scan.id)), st)
        ELSE IF ~commit_ok
        THEN Result(Raised("SQLAlchemyError"), Database(st.committed))
        ELSE Result(Returned(RowVal("Session_Scan", scan.id)), Database(added))

(***************************************************************************)
(* Job submission (datman/utils.py: makedirs, run, submit_job)             *)
(***************************************************************************)
SLASH == "/"
DIR == <<"<dir>">>           \* what the filesystem holds for a directory

TMP == <<"tmp">>              \* the system's directory of temporary files

\* os.path.join
PathJoin(a, b) == a \o <<SLASH>> \o b

\* The path and the directories above it.
Parents(path) ==
    {SubSeq(path, 1, k) : k \in {j \in 1..Len(path) : j = Len(path) \/ path[j + 1] = SLASH}}

makedirs(f, path) ==
    IF path \in Keys(f)
    THEN f
    ELSE [x \in Keys(f) \cup Parents(path) |-> IF x \in Keys(f) THEN f[x] ELSE DIR]

\* A submission command: the program, the job name, the file of commands
\* or the command piped in, and the job that must have ended well before.
Command(prog, name, file, cmd, afterok) ==
    [prog |-> prog, N |-> name, file |-> file, cmd |-> cmd, afterok |-> afterok]

\* run: a dry run skips the command and returns 0; otherwise the command
\* is run (the queue system gets it, with the commands it reads now, and
\* answers with returncode) and its return code is returned.
RunMutant(q, f, cmd, dryrun, returncode) == [rtn |-> returncode, queue |-> Append(q, [cmd |-> cmd, rtn |-> returncode, input |-> IF cmd.file # None THEN f[cmd.file] ELSE cmd.cmd])]

run(q, f, cmd, dryrun, returncode) ==
    IF dryrun
    THEN [rtn |-> 0, queue |-> q]
    ELSE [rtn |-> returncode,
          queue |-> Append(q, [cmd |-> cmd, rtn |-> returncode,
                               input |-> IF cmd.file # None THEN f[cmd.file]
                                         ELSE cmd.cmd])]

\* submit_job: its outcome, the queue and the filesystem after it.
submit_job(q, f, cmd, job_name, system, dryrun, returncode) ==
    IF dryrun
    THEN [ret |-> Returned(NoneVal), queue |-> q, fs |-> f]
    ELSE LET job_file == PathJoin(TMP, job_name)
             written == IF system = "kimel"
                        THEN DictSet(f, job_file, <<"#!/bin/bash", NL>> \o cmd)
                        ELSE f
             r == IF system = "kimel"
                  THEN run(q, written, Command("sbatch", job_name, job_file, None, None),
                           FALSE, returncode)
                  ELSE run(q, f, Command("qbatch", job_name, None, cmd, None),
                           FALSE, returncode)
         IN  [ret |-> IF r.rtn # 0
                      THEN RaisedMsg("SystemExit", <<"1">>)
                      ELSE Returned(NoneVal),
              queue |-> r.queue, fs |-> written]

(***************************************************************************)
(* The ENIGMA DTI driver (bin/dm-proc-enigma.py)                           *)
(***************************************************************************)
INPUT_DIR == <<"dtifit">>
OUTPUT_DIR == <<"enigmaDTI">>
LOG_DIR == PathJoin(OUTPUT_DIR, <<"logs">>)
RUN_DIR == PathJoin(OUTPUT_DIR, <<"bin">>)
script_names == << <<"run_engimadti.sh">>, <<"concatresults.sh">> >>
checklist_file == PathJoin(OUTPUT_DIR, <<"ENIGMA-DTI-checklist.csv">>)
FA_TAG == <<"_FA", ".nii", ".gz">>
TODAY == <<"2020-01-02">>
job_name_prefix == <<"edti", "STU", US, "20200102-030405">>
HEADER == <<"id", COMMA, "FA_nii", COMMA, "date_ran">>

isfile(f, path) == path \in Keys(f) /\ f[path] # DIR
isdir(f, path) == path \in Keys(f) /\ f[path] = DIR

\* a in b, for strings
Contains(b, a) == \E i \in 1..(Len(b) - Len(a) + 1) : SubSeq(b, i, i + Len(a) - 1) = a

EndsWith(s, suffix) ==
    /\ Len(suffix) <= Len(s)
    /\ SubSeq(s, Len(s) - Len(suffix) + 1, Len(s)) = suffix

\* os.listdir: the names of what the directory holds.
listdir(f, dir) ==
    {SubSeq(x, Len(dir) + 2, Len(x)) :
        x \in {y \in Keys(f) : /\ StartsWith(y, dir \o <<SLASH>>)
                               /\ Len(y) > Len(dir) + 1
                               /\ \A k \in (Len(dir) + 2)..Len(y) : y[k] # SLASH}}

\* shutil.rmtree
rmtree(f, dir) ==
    [x \in {y \in Keys(f) : y # dir /\ ~StartsWith(y, dir \o <<SLASH>>)} |-> f[x]]

\* tempfile.mkdtemp: a directory no other run has.
mkdtemp(p) == PathJoin(TMP, <<"tmp", p>>)

\* datman.proc: the subjects with a directory in input_dir that match the
\* filter, sorted.
get_subject_list(f, input_dir, subject_filter) ==
    Sorted({d \in listdir(f, input_dir) :
              /\ isdir(f, PathJoin(input_dir, d))
              /\ subject_filter = None \/ Contains(d, subject_filter)})

ChecklistRow(id, FA_nii, date_ran) == [id |-> id, FA_nii |-> FA_nii, date_ran |-> date_ran]

\* DataFrame.to_csv(sep=',', index=False): a header and one line per row,
\* a null value written as nothing.
to_csvMutant(checklist) ==
    HEADER \o <<NL>>
        \o Cat([i \in 1..Len(checklist) |->
                  checklist[i].id \o <<COMMA>> \o checklist[i].FA_nii \o <<COMMA, NL>>])

to_csv(checklist) ==
    HEADER \o <<NL>>
        \o Cat([i \in 1..Len(checklist) |->
                  checklist[i].id \o <<COMMA>> \o checklist[i].FA_nii
                      \o <<COMMA>> \o checklist[i].date_ran \o <<NL>>])

\* datman.proc: the rows of the checklist file, none when it does not exist.
load_checklist(f, file) ==
    IF ~isfile(f, file) THEN <<>>
    ELSE LET lines == Tail(ReadLines(f[file]))
         IN  [i \in 1..Len(lines) |->
                LET fields == SplitAt(lines[i], {COMMA})
                IN  ChecklistRow(fields[1], fields[2], fields[3])]

\* datman.proc: a row for every subject the checklist does not have yet.
add_new_subjects_to_checklist(subjects, checklist) ==
    checklist \o [i \in 1..Len(SelectSeq(subjects, LAMBDA x : \A k \in 1..Len(checklist) : checklist[k].id # x)) |->
                    ChecklistRow(SelectSeq(subjects, LAMBDA x : \A k \in 1..Len(checklist) : checklist[k].id # x)[i], None, None)]

\* datman.proc: a row without an image gets the one file of its subject's
\* input directory that carries the tag, when there is exactly one.
find_images(f, checklist, input_dir, tag, subject_filter) ==
    [i \in 1..Len(checklist) |->
        LET row == checklist[i]
            found == {x \in listdir(f, PathJoin(input_dir, row.id)) : EndsWith(x, tag)}
        IN  IF /\ row.FA_nii = None
               /\ subject_filter = None \/ Contains(row.id, subject_filter)
               /\ Cardinality(found) = 1
            THEN [row EXCEPT !.FA_nii = CHOOSE x \in found : TRUE]
            ELSE row]

\* datman.proc: the submission of a file of commands as one array job, and
\* of one command that waits for the jobs of a name.
make_file_qbatch_command(cmds_file, name, log_dir) ==
    Command("qbatch", name, cmds_file, None, None)

make_piped_qbatch_command(cmd, name, log_dir, afterok) ==
    Command("qbatch", name, None, cmd, afterok)

\* The text of a run script.
write_run_script(bname, output_dir, CALC_MD, CALC_ALL) ==
    <<"#!/bin/bash", NL>>
        \o (IF bname = script_names[1]
            THEN <<"doInd-enigma-dti.py", SP>>
                     \o (IF CALC_MD THEN <<"--calc-MD", SP>> ELSE <<>>)
                     \o (IF CALC_ALL THEN <<"--calc-all", SP>> ELSE <<>>)
                     \o <<"${OUTDIR} ${FAMAP}", SP, NL>>
            ELSE <<>>)
        \o (IF bname = script_names[2]
            THEN <<"OUTDIR=">> \o output_dir \o <<SP, NL, "concat FA", NL>>
                     \o (IF CALC_MD \/ CALC_ALL THEN <<"concat MD", NL>> ELSE <<>>)
                     \o (IF CALC_ALL THEN <<"concat AD", NL, "concat RD", NL>> ELSE <<>>)
                     \o <<"dm-qc-enigma.py", SP>>
                     \o (IF CALC_MD THEN <<"--calc-MD", SP>> ELSE <<>>)
                     \o (IF CALC_ALL THEN <<"--calc-all", SP>> ELSE <<>>)
                     \o <<"${OUTDIR}", SP, NL>>
            ELSE <<>>)

\* check_runsh: the script that is there is the one this run would write.
check_runsh(f, filename, bname, output_dir, CALC_MD, CALC_ALL) ==
    f[filename] = write_run_script(bname, output_dir, CALC_MD, CALC_ALL)

\* write_run_scripts: the filesystem after it and whether it has ended the
\* run: a script that is there is checked, one that is not is written.
RECURSIVE write_run_scripts(_, _, _, _, _, _)
write_run_scripts(f, names, run_dir, output_dir, CALC_MD, CALC_ALL) ==
    IF names = <<>> THEN [fs |-> f, exit |-> FALSE]
    ELSE LET runsh == PathJoin(run_dir, Head(names))
         IN  IF isfile(f, runsh)
             THEN IF check_runsh(f, runsh, Head(names), output_dir, CALC_MD, CALC_ALL)
                  THEN write_run_scripts(f, Tail(names), run_dir, output_dir, CALC_MD, CALC_ALL)
                  ELSE [fs |-> f, exit |-> TRUE]
             ELSE write_run_scripts(DictSet(f, runsh, write_run_script(Head(names), output_dir, CALC_MD, CALC_ALL)), Tail(names), run_dir, output_dir, CALC_MD, CALC_ALL)

\* The marker of a subject's completed output.
edti_completed(output_dir, subid, FA_img) ==
    PathJoin(PathJoin(PathJoin(output_dir, subid), <<"ROI">>),
             Replace(Replace(FA_img, ".nii"), ".gz") \o <<"skel_ROIout_avg.csv">>)

subject_previously_completedMutant(f, output_dir, subid, FA_img) == FALSE

subject_previously_completed(f, output_dir, subid, FA_img) ==
    isfile(f, edti_completed(output_dir, subid, FA_img))

\* The line of the batch file for a subject.
BatchLine(subid, smap) ==
    <<"bash -l", SP>> \o PathJoin(RUN_DIR, script_names[1]) \o <<SP>>
        \o PathJoin(OUTPUT_DIR, subid) \o <<SP>>
        \o PathJoin(PathJoin(INPUT_DIR, subid), smap) \o <<NL>>

post_edit_cmd == <<"echo bash -l", SP>> \o PathJoin(RUN_DIR, script_names[2])

\* The arguments of a run, and the frame of a run: where it is, its
\* checklist, the row the loop is at, the lines written to the batch file,
\* submit_edti, its exit status, and (for the properties) the filesystem and
\* the queue it started from.
Arguments(dry_run, post_only, no_post, calc_md, subject_filter) ==
    [dry_run |-> dry_run, post_only |-> post_only, no_post |-> no_post,
     calc_md |-> calc_md, calc_all |-> FALSE, subject_filter |-> subject_filter]

NoRun == [pc |-> "", args |-> Arguments(FALSE, FALSE, FALSE, FALSE, None),
          checklist |-> <<>>, i |-> 0, cmds |-> <<>>, submit_edti |-> FALSE,
          status |-> 0, before |-> EmptyDict]

\* No run of the pipeline.
NoPipeline ==
    /\ fs = EmptyDict
    /\ queue = <<>>
    /\ enigma = [p \in Procs |-> NoRun]

(***************************************************************************)
(* REDCap scan-completed records (bin/dm_redcap_scan_completed.py)         *)
(***************************************************************************)
\* str.upper, atom by atom.
UpperAtom(a) ==
    CASE a = "stu" -> "STU"
      [] a = "bad" -> "BAD"
      [] a = "x" -> "X"
      [] a = "y" -> "Y"
      [] a = "d" -> "D"
      [] OTHER -> a
Upper(s) == [i \in 1..Len(s) |-> UpperAtom(s[i])]

\* A record of the instrument: its id, the subject field, the date field,
\* and whether its status field has one of the values that mark it complete.
Record(record_id, subj, date, status) ==
    [record_id |-> record_id, subj |-> subj, date |-> date, status |-> status]

\* The subject ID that add_session_redcap parses: the field in upper case,
\* with '_01' added when it is no scan ID.
RecordSubject(record) ==
    IF CanParse(Upper(record.subj)) THEN Upper(record.subj)
    ELSE Upper(record.subj) \o <<US, "0", "1">>

\* After the session lookup g: DashboardException is logged and the record
\* skipped, any other exception goes on to the caller; add_redcap on what
\* the lookup gave, every failure of which is logged.
AfterLookup(g, add_ok) ==
    IF g.ret.exc = "DashboardException"
    THEN [status |-> <<"skipped">>, exc |-> "", store |-> g.store]
    ELSE IF g.ret.exc # ""
    THEN [status |-> <<"raised">>, exc |-> g.ret.exc, store |-> g.store]
    ELSE IF g.ret.val.t # "Session" \/ ~add_ok
    THEN [status |-> <<"skipped">>, exc |-> "", store |-> g.store]
    ELSE [status |-> <<"added">>, exc |-> "", store |-> g.store]

add_session_redcap(st, text, record, readable, commit_ok, add_ok) ==
    IF ~CanParse(RecordSubject(record))
    THEN [status |-> <<"skipped">>, exc |-> "", store |-> st]
    ELSE CHOOSE r \in {AfterLookup(g, add_ok) : g \in {get_add_session(st, text, get_full_subjectid_with_timepoint(parse(RecordSubject(record))), record.date, TRUE, readable, commit_ok)}} : TRUE

\* One turn of the loop of main over the records that are complete.
Processed(acc, record, r) ==
    [exc |-> r.exc, store |-> r.store,
     statuses |-> IF r.exc = "" THEN DictSet(acc.statuses, record.record_id, r.status)
                  ELSE acc.statuses]

RECURSIVE ProcessRecords(_, _, _, _, _, _)
ProcessRecords(acc, records, text, readable, commit_ok, add_ok) ==
    IF records = <<>> \/ acc.exc # "" THEN acc
    ELSE IF Head(records).date = None \/ ~Head(records).status
    THEN ProcessRecords(acc, Tail(records), text, readable, commit_ok, add_ok)
    ELSE ProcessRecords(CHOOSE next \in {Processed(acc, Head(records), r) : r \in {add_session_redcap(acc.store, text, Head(records), readable, commit_ok, add_ok)}} : TRUE, Tail(records), text, readable, commit_ok, add_ok)

(***************************************************************************)
(* Calls                                                                   *)
(***************************************************************************)
NoCall == [op |-> "", subject |-> None, scan |-> None, scanlist |-> <<>>, path |-> FALSE,
           entries |-> EmptyDict, old |-> EmptyDict,
           date |-> None, create |-> FALSE, system |-> "", dryrun |-> FALSE,
           returncode |-> 0, n |-> 0]

\* Frame of write_metadata: the lines and the path it was called with, the
\* tries it has left, how many lines of the current attempt are in the
\* file, and (for the properties) the attempts made, those that failed and
\* the text the file held when it was called.
NoFrame == [state |-> "", lines |-> <<>>, path |-> "", retry |-> 0,
            attempts |-> 0, failures |-> 0, pos |-> 0, before |-> <<>>]

Idle(p) == pc[p] = "idle" /\ ncalls < MaxCalls

\* A call that runs in one step: record it, numbered, with its outcome.
Finish(p, c, o) ==
    /\ call' = [call EXCEPT ![p] = [c EXCEPT !.n = ncalls + 1]]
    /\ ret' = [ret EXCEPT ![p] = o.ret]
    /\ touched' = [touched EXCEPT ![p] = o.touched]
    /\ undisturbed' = [undisturbed EXCEPT ![p] = TRUE]
    /\ ncalls' = ncalls + 1
    /\ wr' = [wr EXCEPT ![p] = NoFrame]
    /\ UNCHANGED pc

SubjectArgs == {None, ID1, ID1S, ID2, BAD}
ScanArgs == {None, SCAN1, SCAN2, BAD}

ReadChecklist(p, subjects) ==
    /\ Idle(p)
    /\ \E subject \in subjects, path \in BOOLEAN :
         Finish(p, [NoCall EXCEPT !.op = "read_checklist",
                                  !.subject = subject, !.path = path],
                read_checklist(files[CHECKLIST], db, dash_found, subject, path))
    /\ UNCHANGED <<files, dash_found, db, store, fs, queue, enigma>>

ReadBlacklist(p, scans) ==
    /\ Idle(p)
    /\ \E scan \in scans, subject \in {None, ID1}, path \in BOOLEAN :
         /\ scan # None => subject = None
         /\ Finish(p, [NoCall EXCEPT !.op = "read_blacklist", !.scan = scan,
                                     !.subject = subject, !.path = path],
                   read_blacklist(files[BLACKLIST], db, dash_found, scan, subject, path))
    /\ UNCHANGED <<files, dash_found, db, store, fs, queue, enigma>>

GetSubjectMetadata(p) ==
    /\ Idle(p)
    /\ Finish(p, [NoCall EXCEPT !.op = "get_subject_metadata"],
              get_subject_metadata(files[CHECKLIST], files[BLACKLIST], db, dash_found))
    /\ UNCHANGED <<files, dash_found, db, store, fs, queue, enigma>>

(***************************************************************************)
(* Reading: the files are any texts of a few lines, one reader             *)
(***************************************************************************)
InitCalls ==
    /\ pc = [p \in Procs |-> "idle"]
    /\ call = [p \in Procs |-> NoCall]
    /\ ret = [p \in Procs |-> Returned(NoneVal)]
    /\ wr = [p \in Procs |-> NoFrame]
    /\ touched = [p \in Procs |-> {}]
    /\ undisturbed = [p \in Procs |-> TRUE]
    /\ ncalls = 0

BaseChecklist ==
    <<"qc_">> \o ID1 \o <<".html", SP, "x", NL>> \o
    <<"qc_">> \o ID2 \o <<".html", NL>>

BaseBlacklist ==
    <<"series", TAB, "reason", NL>> \o SCAN1 \o <<SP, "x", NL>> \o
    SCAN2 \o <<SP, "x", NL>> \o SCAN11 \o <<SP, "y", NL>>

InitRead ==
    /\ \/ \E c \in TextsOf(ChecklistPool, MaxLines) :
            files = (CHECKLIST :> c) @@ (BLACKLIST :> BaseBlacklist)
       \/ \E b \in TextsOf(BlacklistPool, MaxLines) :
            files = (CHECKLIST :> BaseChecklist) @@ (BLACKLIST :> b)
    /\ dash_found \in BOOLEAN
    /\ db = InitDb
    /\ store = NoStore
    /\ InitCalls
    /\ NoPipeline

NextRead ==
    \/ ReadChecklist("p1", SubjectArgs)
    \/ ReadBlacklist("p1", ScanArgs)
    \/ GetSubjectMetadata("p1")

SpecRead == InitRead /\ [][NextRead]_vars

(***************************************************************************)
(* Updates, and write_metadata step by step                                *)
(***************************************************************************)
DefaultRetry == 3

ChecklistDeltas ==
    { ID1 :> <<"y">>,
      ID2 :> <<"x", SP, SP, "y">>,
      (ID1 :> <<>>) @@ (ID11 :> <<"x">>),
      ID1S :> <<"x">>,
      (ID1S :> <<"x">>) @@ (ID1 :> <<"y">>),
      BAD :> <<"x">>,
      ID2 :> <<"x", NL, "y">> }

BlacklistDeltas ==
    { SCAN1 :> <<"y">>,
      SCAN1 :> <<>>,
      (SCAN2 :> <<>>) @@ (SCAN11 :> <<"x", COMMA, "y">>),
      BAD :> <<"x">> }

\* The call goes on in write_metadata(lines, path).
StartWrite(p, c, lines, path) ==
    /\ call' = [call EXCEPT ![p] = [c EXCEPT !.n = ncalls + 1]]
    /\ wr' = [wr EXCEPT ![p] =
                [state |-> "running", lines |-> lines, path |-> path,
                 retry |-> DefaultRetry, attempts |-> 0, failures |-> 0,
                 pos |-> 0, before |-> files[path]]]
    /\ pc' = [pc EXCEPT ![p] = "write"]
    /\ ret' = [ret EXCEPT ![p] = Returned(NoneVal)]
    /\ touched' = [touched EXCEPT ![p] = {FILE}]
    /\ undisturbed' = [undisturbed EXCEPT ![p] = TRUE]
    /\ ncalls' = ncalls + 1

DoneOrRaised(exc) == IF exc = "" THEN Returned(NoneVal) ELSE Raised(exc)

UpdateChecklist(p) ==
    /\ Idle(p)
    /\ \E entries \in ChecklistDeltas, path \in BOOLEAN :
         LET c == [NoCall EXCEPT !.op = "update_checklist",
                                 !.entries = entries, !.path = path]
             old_entries == _parse_checklist(files[CHECKLIST], None).d
         IN  IF UseDashboard(dash_found, path)
             THEN \E o \in _update_qc_reviewers(db, entries) :
                    /\ db' = o.db
                    /\ Finish(p, c, Outcome(DoneOrRaised(o.exc), {DASHBOARD}))
                    /\ UNCHANGED files
             ELSE \E m \in MergeChecklist(old_entries, entries) :
                    IF m.exc # ""
                    THEN /\ Finish(p, [c EXCEPT !.old = old_entries],
                                   Outcome(Raised(m.exc), {FILE}))
                         /\ UNCHANGED <<files, db>>
                    ELSE /\ StartWrite(p, [c EXCEPT !.old = old_entries],
                                       ChecklistFileLines(m.d), CHECKLIST)
                         /\ UNCHANGED <<files, db>>
    /\ UNCHANGED <<dash_found, store, fs, queue, enigma>>

UpdateBlacklist(p) ==
    /\ Idle(p)
    /\ \E entries \in BlacklistDeltas, path \in BOOLEAN :
         LET c == [NoCall EXCEPT !.op = "update_blacklist",
                                 !.entries = entries, !.path = path]
             old_entries == _parse_blacklist(files[BLACKLIST], None, None).d
         IN  IF UseDashboard(dash_found, path)
             THEN \E o \in _update_scan_checklist(db, entries) :
                    /\ db' = o.db
                    /\ Finish(p, c, Outcome(DoneOrRaised(o.exc), {DASHBOARD}))
                    /\ UNCHANGED files
             ELSE \E m \in MergeBlacklist(old_entries, entries) :
                    IF m.exc # ""
                    THEN /\ Finish(p, [c EXCEPT !.old = old_entries],
                                   Outcome(Raised(m.exc), {FILE}))
                         /\ UNCHANGED <<files, db>>
                    ELSE /\ StartWrite(p, [c EXCEPT !.old = old_entries],
                                       BlacklistFileLines(m.d), BLACKLIST)
                         /\ UNCHANGED <<files, db>>
    /\ UNCHANGED <<dash_found, store, fs, queue, enigma>>

NUL == "NUL"

\* A write of data at an offset of the file: it replaces what is there and
\* extends the file, with a hole where the file was shorter than the offset.
Overwrite(text, offset, data) ==
    LET end == offset + Len(data)
        n == IF Len(text) > end THEN Len(text) ELSE end
    IN  [i \in 1..n |->
            IF i > offset /\ i <= end THEN data[i - offset]
            ELSE IF i <= Len(text) THEN text[i]
            ELSE NUL]

\* Another process changed the file that the last call of q works on.
Disturb(p, path) ==
    undisturbed' = [q \in Procs |->
                       undisturbed[q] /\ (q = p \/ wr[q].path # path)]

\* 'if not retry: raise MetadataException'
WriteRaise(p) ==
    /\ pc[p] = "write"
    /\ wr[p].retry = 0
    /\ pc' = [pc EXCEPT ![p] = "idle"]
    /\ wr' = [wr EXCEPT ![p].state = "raised"]
    /\ ret' = [ret EXCEPT ![p] = Raised("MetadataException")]
    /\ UNCHANGED <<files, dash_found, db, store, call, touched, undisturbed, ncalls, fs, queue, enigma>>

\* The tries left after a failed attempt: write_metadata(.., retry=retry-1).
RetryAfterFailureMutant(retry) == retry

RetryAfterFailure(retry) == retry - 1

Failed(p) ==
    [wr[p] EXCEPT !.retry = RetryAfterFailure(@), !.failures = @ + 1, !.pos = 0]

\* open(path, "w") succeeds: the file is emptied.
WriteOpen(p) ==
    /\ pc[p] = "write"
    /\ wr[p].retry > 0
    /\ files' = [files EXCEPT ![wr[p].path] = <<>>]
    /\ pc' = [pc EXCEPT ![p] = "writing"]
    /\ wr' = [wr EXCEPT ![p].attempts = @ + 1, ![p].pos = 0]
    /\ Disturb(p, wr[p].path)
    /\ UNCHANGED <<dash_found, db, store, call, ret, touched, ncalls, fs, queue, enigma>>

\* open(path, "w") raises: the attempt has failed, the file is as it was.
WriteOpenFail(p) ==
    /\ pc[p] = "write"
    /\ wr[p].retry > 0
    /\ wr' = [wr EXCEPT ![p] = [Failed(p) EXCEPT !.attempts = @ + 1]]
    /\ UNCHANGED <<files, dash_found, db, store, pc, call, ret, touched, undisturbed, ncalls, fs, queue, enigma>>

\* writelines: the next line reaches the file, at the offset of this writer.
WriteLine(p) ==
    /\ pc[p] = "writing"
    /\ wr[p].pos < Len(wr[p].lines)
    /\ files' = [files EXCEPT ![wr[p].path] =
                    Overwrite(@, Len(Cat(SubSeq(wr[p].lines, 1, wr[p].pos))),
                              wr[p].lines[wr[p].pos + 1])]
    /\ wr' = [wr EXCEPT ![p].pos = @ + 1]
    /\ Disturb(p, wr[p].path)
    /\ UNCHANGED <<dash_found, db, store, pc, call, ret, touched, ncalls, fs, queue, enigma>>

\* writelines or the closing of the file raises: the attempt has failed and
\* the file keeps what has reached it.
WriteFail(p) ==
    /\ pc[p] = "writing"
    /\ wr' = [wr EXCEPT ![p] = Failed(p)]
    /\ pc' = [pc EXCEPT ![p] = "write"]
    /\ UNCHANGED <<files, dash_found, db, store, call, ret, touched, undisturbed, ncalls, fs, queue, enigma>>

\* Every line is written and the file is closed: write_metadata returns.
WriteClose(p) ==
    /\ pc[p] = "writing"
    /\ wr[p].pos = Len(wr[p].lines)
    /\ pc' = [pc EXCEPT ![p] = "idle"]
    /\ wr' = [wr EXCEPT ![p].state = "returned"]
    /\ ret' = [ret EXCEPT ![p] = Returned(NoneVal)]
    /\ UNCHANGED <<files, dash_found, db, store, call, touched, undisturbed, ncalls, fs, queue, enigma>>

WriteStep(p) ==
    \/ WriteRaise(p)
    \/ WriteOpen(p)
    \/ WriteOpenFail(p)
    \/ WriteLine(p)
    \/ WriteFail(p)
    \/ WriteClose(p)

InitialChecklist ==
    <<"qc_">> \o ID1 \o <<".html", SP, "x", NL>>

InitialBlacklist ==
    <<"series", TAB, "reason", NL>> \o SCAN1 \o <<SP, "x", NL>>

Init ==
    /\ files \in { (CHECKLIST :> c) @@ (BLACKLIST :> b) :
                     c \in {<<>>, InitialChecklist}, b \in {<<>>, InitialBlacklist} }
    /\ dash_found \in BOOLEAN
    /\ db = InitDb
    /\ store = NoStore
    /\ InitCalls
    /\ NoPipeline

Writer == "p1"
Observer == "p2"

\* One process updates; another one reads at any moment.
Next ==
    \/ UpdateChecklist(Writer)
    \/ UpdateBlacklist(Writer)
    \/ WriteStep(Writer)
    \/ ReadChecklist(Observer, {None, ID1S})
    \/ ReadBlacklist(Observer, {SCAN1})

Spec == Init /\ [][Next]_vars

\* The updating process by itself.  In write_metadata it takes its next
\* step: the calls are sequential code and the sleep between two attempts
\* is bounded.
NextWriter ==
    \/ UpdateChecklist(Writer)
    \/ UpdateBlacklist(Writer)
    \/ WriteStep(Writer)

FairSpec == Init /\ [][NextWriter]_vars /\ WF_vars(WriteStep(Writer))

\* Two processes update the files of the file backend at once.
InitWriters ==
    /\ files = (CHECKLIST :> InitialChecklist) @@ (BLACKLIST :> InitialBlacklist)
    /\ dash_found = FALSE
    /\ db = InitDb
    /\ store = NoStore
    /\ InitCalls
    /\ NoPipeline

NextWriters ==
    \/ \E p \in Procs : UpdateChecklist(p)
    \/ \E p \in Procs : UpdateBlacklist(p)
    \/ \E p \in Procs : WriteStep(p)

SpecWriters == InitWriters /\ [][NextWriters]_vars

(***************************************************************************)
(* Dashboard reconciliation: one process on a database of a few rows       *)
(***************************************************************************)
\* The study with its site and scan type; without a site; without its
\* scan type.
Registries ==
    { [sites |-> {<<"CMH">>}, scantypes |-> {<<"T1">>}, study_scantypes |-> {<<"T1">>}],
      [sites |-> {}, scantypes |-> {<<"T1">>}, study_scantypes |-> {<<"T1">>}],
      [sites |-> {<<"CMH">>}, scantypes |-> {<<"T1">>}, study_scantypes |-> {}],
      [sites |-> {<<"CMH">>}, scantypes |-> {}, study_scantypes |-> {}] }

D1 == <<"2020", DASH, "01", DASH, "01">>
D2 == <<"2020", DASH, "01", DASH, "02">>

SCAN1ID == ID1S \o <<US, "T1", US, "2">>
SCAN0 == ScanOf(ID1)                  \* a scan name without session number

Session1(id) == SessionRow(id, STUDY, ID1, <<"CMH">>, strptime(D2), None, FALSE)
Scan1(id) == ScanRow(id, SCAN1ID, <<"2">>, <<"T1">>, <<"d">>, 1)

SCAN0ID == ID1 \o <<US, "T1", US, "2">>
Scan0(id, repeat) == ScanRow(id, SCAN0ID, <<"2">>, <<"T1">>, <<"d">>, repeat)

\* No row; one session; the same session twice; a session of that name in
\* another study; two sessions with a comment; a session with its scan; a session with two
\* scans that have a comment; a session with two scans of one
\* name and repeat number; a session with two scans of one name, entered
\* without session number, that differ in the repeat number.
Contents ==
    { [sessions |-> {}, scans |-> {}, links |-> {}],
      [sessions |-> {Session1(1)}, scans |-> {}, links |-> {}],
      [sessions |-> {Session1(1), Session1(2)}, scans |-> {}, links |-> {}],
      [sessions |-> {SessionRow(1, <<"OTH">>, ID1, <<"CMH">>, None, <<"x">>, FALSE)},
       scans |-> {}, links |-> {}],
      [sessions |-> {SessionRow(1, STUDY, ID1, <<"CMH">>, strptime(D2), <<"y">>, FALSE),
                     SessionRow(2, STUDY, ID2, <<"CMH">>, None, <<"y">>, TRUE)},
       scans |-> {}, links |-> {}],
      [sessions |-> {Session1(1)}, scans |-> {Scan1(1)},
       links |-> {LinkRow(1, 1, TRUE, SCAN1ID)}],
      [sessions |-> {Session1(1)},
       scans |-> {[Scan1(1) EXCEPT !.bl_comment = <<"y">>],
                  [Scan0(2, NoRepeat) EXCEPT !.bl_comment = <<"y">>]},
       links |-> {LinkRow(1, 1, TRUE, SCAN1ID), LinkRow(2, 1, TRUE, SCAN0ID)}],
      [sessions |-> {Session1(1)}, scans |-> {Scan1(1), Scan1(2)},
       links |-> {LinkRow(1, 1, TRUE, SCAN1ID), LinkRow(2, 1, TRUE, SCAN1ID)}],
      [sessions |-> {Session1(1)}, scans |-> {Scan0(1, 1), Scan0(2, 2)},
       links |-> {LinkRow(1, 1, TRUE, SCAN0ID), LinkRow(2, 1, TRUE, SCAN0ID)}] }

SessionNames == {ID1, ID2, BAD}
Dates == {None, D1, D2, <<"bad">>}
ScanNames == {SCAN1, SCAN0, SCAN2, BAD}

GetAddSession(p) ==
    /\ Idle(p)
    /\ \E session_name \in SessionNames, date \in Dates,
          create, readable, commit_ok \in BOOLEAN :
         LET o == get_add_session(store, files[CHECKLIST], session_name, date,
                                  create, readable, commit_ok)
         IN  /\ store' = o.store
             /\ Finish(p, [NoCall EXCEPT !.op = "get_add_session",
                                         !.subject = session_name,
                                         !.date = date, !.create = create],
                       Outcome(o.ret, {DASHBOARD}))
    /\ UNCHANGED <<files, dash_found, db, fs, queue, enigma>>

GetAddScan(p) ==
    /\ Idle(p)
    /\ \E scan_name \in ScanNames,
          create, readable, session_commit_ok, commit_ok \in BOOLEAN :
         LET o == get_add_scan(store, files[CHECKLIST], files[BLACKLIST],
                               scan_name, create, readable, session_commit_ok,
                               commit_ok)
         IN  /\ store' = o.store
             /\ Finish(p, [NoCall EXCEPT !.op = "get_add_scan",
                                         !.scan = scan_name, !.create = create],
                       Outcome(o.ret, {DASHBOARD}))
    /\ UNCHANGED <<files, dash_found, db, fs, queue, enigma>>

InitDash ==
    /\ files = (CHECKLIST :> InitialChecklist) @@ (BLACKLIST :> InitialBlacklist)
    /\ dash_found = TRUE
    /\ db = InitDb
    /\ \E r \in Registries, c \in Contents :
         store = Database(Tables(r.sites, r.scantypes, r.study_scantypes,
                                 c.sessions, c.scans, c.links))
    /\ InitCalls
    /\ NoPipeline

Caller == "p1"

NextDash ==
    \/ GetAddSession(Caller)
    \/ GetAddScan(Caller)

SpecDash == InitDash /\ [][NextDash]_vars

(***************************************************************************)
(* Deleting the scans that a list does not name                            *)
(***************************************************************************)
SCANYID == ID1S \o <<US, "T1", US, "1">>
SCANY == SCANYID \o <<US, "d">>
SPRLID == ID1S \o <<US, "SPRL", US, "2">>
SPRLSCAN == SPRLID \o <<US, "d">>

ScanY(id) == ScanRow(id, SCANYID, <<"1">>, <<"T1">>, <<"d">>, 1)
SprlScan(id) == ScanRow(id, SPRLID, <<"2">>, SPRL, <<"d">>, 1)
Session2(id) == SessionRow(id, STUDY, ID2, <<"CMH">>, strptime(D2), None, FALSE)

\* A session with: its scan; two scans of one name, one of them linked to
\* it; a scan and a spiral; two scans of one name; two scans; two scans and
\* a scan without link that has the name of the second; a scan that
\* another session is linked to; and a scan with another session that is
\* not linked to it.
DeleteContents ==
    { [sessions |-> {Session1(1)}, scans |-> {Scan1(1)},
       links |-> {LinkRow(1, 1, TRUE, SCAN1ID)}],
      [sessions |-> {Session1(1)}, scans |-> {Scan1(1), Scan1(2)},
       links |-> {LinkRow(1, 1, TRUE, SCAN1ID), LinkRow(2, 1, FALSE, SCAN1ID)}],
      [sessions |-> {Session1(1)}, scans |-> {Scan1(1), SprlScan(2)},
       links |-> {LinkRow(1, 1, TRUE, SCAN1ID), LinkRow(2, 1, TRUE, SPRLID)}],
      [sessions |-> {Session1(1)}, scans |-> {Scan1(1), Scan1(2)},
       links |-> {LinkRow(1, 1, TRUE, SCAN1ID), LinkRow(2, 1, TRUE, SCAN1ID)}],
      [sessions |-> {Session1(1)}, scans |-> {Scan1(1), ScanY(2)},
       links |-> {LinkRow(1, 1, TRUE, SCAN1ID), LinkRow(2, 1, TRUE, SCANYID)}],
      [sessions |-> {Session1(1)}, scans |-> {Scan1(1), ScanY(2), ScanY(3)},
       links |-> {LinkRow(1, 1, TRUE, SCAN1ID), LinkRow(2, 1, TRUE, SCANYID)}],
      [sessions |-> {Session1(1), Session2(2)}, scans |-> {Scan1(1)},
       links |-> {LinkRow(1, 1, TRUE, SCAN1ID), LinkRow(1, 2, FALSE, SCAN1ID)}],
      [sessions |-> {Session1(1), Session2(2)}, scans |-> {Scan1(1)},
       links |-> {LinkRow(1, 1, TRUE, SCAN1ID)}] }

SessionLabels == {ID1S, ID1, BAD}
ScanLists == {<<>>, <<SCAN1>>, <<SCAN1, SCANY>>, <<SPRLSCAN>>}

DeleteExtraScans(p) ==
    /\ Idle(p)
    /\ \E session_label \in SessionLabels, scanlist \in ScanLists,
          cl_readable, bl_readable, session_commit_ok, scan_commit_ok,
          commit_ok \in BOOLEAN :
         \E o \in delete_extra_scans(store, files[CHECKLIST], files[BLACKLIST],
                                     session_label, scanlist, cl_readable,
                                     bl_readable, session_commit_ok,
                                     scan_commit_ok, commit_ok) :
             /\ store' = o.store
             /\ Finish(p, [NoCall EXCEPT !.op = "delete_extra_scans",
                                         !.subject = session_label,
                                         !.scanlist = scanlist],
                       Outcome(o.ret, {DASHBOARD}))
    /\ UNCHANGED <<files, dash_found, db, fs, queue, enigma>>

InitDelete ==
    /\ files = (CHECKLIST :> InitialChecklist) @@ (BLACKLIST :> InitialBlacklist)
    /\ dash_found = TRUE
    /\ db = InitDb
    /\ \E c \in DeleteContents :
         store = Database(Tables({<<"CMH">>}, {<<"T1">>, SPRL}, {<<"T1">>, SPRL},
                                 c.sessions, c.scans, c.links))
    /\ InitCalls
    /\ NoPipeline

\* A session of the store is linked to a scan of the store.
GetAddSessionScanLink(p) ==
    /\ Idle(p)
    /\ \E target_session \in store.session.sessions, scan \in store.session.scans,
          new_name \in {None, SCANYID}, commit_ok \in BOOLEAN :
         \E o \in {get_add_session_scan_link(store, target_session, scan,
                                             new_name, commit_ok)} :
             /\ store' = o.store
             /\ Finish(p, [NoCall EXCEPT !.op = "get_add_session_scan_link",
                                         !.subject = target_session.name,
                                         !.scan = scan.name],
                       Outcome(o.ret, {DASHBOARD}))
    /\ UNCHANGED <<files, dash_found, db, fs, queue, enigma>>

NextDelete ==
    \/ DeleteExtraScans(Caller)
    \/ GetAddSessionScanLink(Caller)

SpecDelete == InitDelete /\ [][NextDelete]_vars

(***************************************************************************)
(* A run of the ENIGMA DTI driver, and jobs submitted through submit_job   *)
(***************************************************************************)
Runner == "p2"
ReturnCodes == {0, 1}        \* what the queue system answers a submission with
FA1 == ID1 \o FA_TAG
FA2 == ID2 \o FA_TAG
YESTERDAY == <<"2020-01-01">>
JOB == <<"job">>
JOBCMD == <<"echo hi">>

\* What a run can find: the output directory (missing, without scripts,
\* with the scripts of a run without or with --calc-MD), each subject
\* (missing, without image, with its image, with the marker of its
\* completed output), and the checklist an earlier run has left.
OutputStates == {"none", "dirs", "scripts", "stale"}
SubjectStates == {"absent", "dir", "image", "done"}

WithOutput(f, out) ==
    IF out = "none" THEN f
    ELSE LET dirs == makedirs(makedirs(f, LOG_DIR), RUN_DIR)
         IN  IF out = "dirs" THEN dirs
             ELSE write_run_scripts(dirs, script_names, RUN_DIR, OUTPUT_DIR, out = "stale", FALSE).fs

WithSubject(f, subid, st) ==
    IF st = "absent" THEN f
    ELSE LET dir == makedirs(f, PathJoin(INPUT_DIR, subid))
             image == DictSet(dir, PathJoin(PathJoin(INPUT_DIR, subid), subid \o FA_TAG), <<"FA">>)
             marker == edti_completed(OUTPUT_DIR, subid, subid \o FA_TAG)
         IN  IF st = "dir" THEN dir
             ELSE IF st = "image" THEN image
             ELSE DictSet(makedirs(image, SubSeq(marker, 1, Len(marker) - 2)), marker, <<"ROI">>)

WithChecklist(f, previous) ==
    IF previous
    THEN DictSet(makedirs(f, OUTPUT_DIR), checklist_file, to_csv(<<ChecklistRow(ID1, FA1, YESTERDAY)>>))
    ELSE f

Environment(out, s1, s2, previous) ==
    WithChecklist(WithSubject(WithSubject(WithOutput((TMP :> DIR) @@ (INPUT_DIR :> DIR), out), ID1, s1), ID2, s2), previous)

StartRun(args, f) == [NoRun EXCEPT !.pc = "start", !.args = args, !.before = f]

\* sys.exit
Exit(r, status) == [r EXCEPT !.pc = "done", !.status = status]

\* Lines 132-179: the directories, the subjects, the run scripts, the
\* checklist, and the temporary directory with the empty batch file.
EnigmaSetup(p) ==
    /\ enigma[p].pc = "start"
    /\ LET r == enigma[p]
           dirs == makedirs(makedirs(fs, LOG_DIR), RUN_DIR)
           subjects == get_subject_list(dirs, INPUT_DIR, r.args.subject_filter)
           w == write_run_scripts(dirs, script_names, RUN_DIR, OUTPUT_DIR, r.args.calc_md, r.args.calc_all)
           checklist == find_images(w.fs, add_new_subjects_to_checklist(subjects, load_checklist(w.fs, checklist_file)), INPUT_DIR, FA_TAG, r.args.subject_filter)
       IN  IF Len(subjects) = 0
           THEN /\ fs' = dirs
                /\ enigma' = [enigma EXCEPT ![p] = Exit(r, 1)]
           ELSE IF w.exit
           THEN /\ fs' = w.fs
                /\ enigma' = [enigma EXCEPT ![p] = Exit(r, 1)]
           ELSE IF r.args.post_only
           THEN /\ fs' = w.fs
                /\ enigma' = [enigma EXCEPT ![p] = [r EXCEPT !.pc = "post", !.checklist = checklist]]
           ELSE /\ fs' = DictSet(makedirs(w.fs, mkdtemp(p)), PathJoin(mkdtemp(p), <<"commands.txt">>), <<>>)
                /\ enigma' = [enigma EXCEPT ![p] = [r EXCEPT !.pc = "batch", !.checklist = checklist, !.i = 1]]
    /\ UNCHANGED <<files, dash_found, db, store, pc, call, ret, wr, touched, undisturbed, ncalls, queue>>

\* Lines 180-208: one turn of the loop over the checklist.
EnigmaBatchRow(p) ==
    /\ enigma[p].pc = "batch"
    /\ enigma[p].i <= Len(enigma[p].checklist)
    /\ LET r == enigma[p]
           i == r.i
           subid == r.checklist[i].id
           smap == r.checklist[i].FA_nii
           cmds_file == PathJoin(mkdtemp(p), <<"commands.txt">>)
       IN  IF \/ r.args.subject_filter # None /\ ~Contains(subid, r.args.subject_filter)
              \/ smap = None
              \/ subject_previously_completed(fs, OUTPUT_DIR, subid, smap)
           THEN /\ enigma' = [enigma EXCEPT ![p] = [r EXCEPT !.i = i + 1]]
                /\ fs' = fs
           ELSE /\ enigma' = [enigma EXCEPT ![p] = [r EXCEPT !.i = i + 1, !.cmds = Append(r.cmds, subid), !.checklist[i].date_ran = TODAY, !.submit_edti = TRUE]]
                /\ fs' = DictSet(fs, cmds_file, fs[cmds_file] \o BatchLine(subid, smap))
    /\ UNCHANGED <<files, dash_found, db, store, pc, call, ret, wr, touched, undisturbed, ncalls, queue>>

\* Lines 210-215: the batch file is closed and, if submit_edti, submitted
\* as an array job; the temporary directory goes.
EnigmaSubmit(p) ==
    /\ enigma[p].pc = "batch"
    /\ enigma[p].i > Len(enigma[p].checklist)
    /\ \E returncode \in ReturnCodes :
         LET r == enigma[p]
             cmds_file == PathJoin(mkdtemp(p), <<"commands.txt">>)
         IN  /\ queue' = IF r.submit_edti
                         THEN run(queue, fs, make_file_qbatch_command(cmds_file, job_name_prefix, LOG_DIR), r.args.dry_run, returncode).queue
                         ELSE queue
             /\ fs' = rmtree(fs, mkdtemp(p))
             /\ enigma' = [enigma EXCEPT ![p] = [r EXCEPT !.pc = "post"]]
    /\ UNCHANGED <<files, dash_found, db, store, pc, call, ret, wr, touched, undisturbed, ncalls>>

\* Lines 216-228: if submit_edti, the job that concatenates the results
\* is submitted, to run after the array job.
EnigmaPost(p) ==
    /\ enigma[p].pc = "post"
    /\ \E returncode \in ReturnCodes :
         LET r == enigma[p]
         IN  /\ queue' = IF r.submit_edti
                         THEN run(queue, fs, make_piped_qbatch_command(post_edit_cmd, job_name_prefix \o <<"_post">>, LOG_DIR, job_name_prefix), r.args.dry_run, returncode).queue
                         ELSE queue
             /\ enigma' = [enigma EXCEPT ![p] = [r EXCEPT !.pc = "save"]]
    /\ UNCHANGED <<files, dash_found, db, store, pc, call, ret, wr, touched, undisturbed, ncalls, fs>>

\* Lines 230-232: outside a dry run the checklist is written; the run ends.
EnigmaSave(p) ==
    /\ enigma[p].pc = "save"
    /\ LET r == enigma[p]
       IN  /\ fs' = IF ~r.args.dry_run THEN DictSet(fs, checklist_file, to_csv(r.checklist)) ELSE fs
           /\ enigma' = [enigma EXCEPT ![p] = Exit(r, 0)]
    /\ UNCHANGED <<files, dash_found, db, store, pc, call, ret, wr, touched, undisturbed, ncalls, queue>>

\* utils.submit_job, called by a script of its own.
SubmitJob(p) ==
    /\ Idle(p)
    /\ \E system \in {"kimel", "other"}, dryrun \in BOOLEAN, returncode \in ReturnCodes :
         \E o \in {submit_job(queue, fs, JOBCMD, JOB, system, dryrun, returncode)} :
             /\ queue' = o.queue
             /\ fs' = o.fs
             /\ Finish(p, [NoCall EXCEPT !.op = "submit_job", !.system = system, !.dryrun = dryrun, !.returncode = returncode], Outcome(o.ret, {}))
    /\ UNCHANGED <<files, dash_found, db, store, enigma>>

InitEnigma ==
    /\ files = (CHECKLIST :> InitialChecklist) @@ (BLACKLIST :> InitialBlacklist)
    /\ dash_found = TRUE
    /\ db = InitDb
    /\ store = Database(Tables({<<"CMH">>}, {<<"T1">>}, {<<"T1">>}, {}, {}, {}))
    /\ InitCalls
    /\ queue = <<>>
    /\ \E out \in OutputStates, s1 \in SubjectStates, s2 \in SubjectStates \ {"dir"}, previous \in BOOLEAN :
         fs = Environment(out, s1, s2, previous)
    /\ \E dry_run, post_only, no_post \in BOOLEAN, subject_filter \in {None, <<"2">>} :
         enigma = [p \in Procs |-> IF p = Runner THEN StartRun(Arguments(dry_run, post_only, no_post, FALSE, subject_filter), fs) ELSE NoRun]

\* One run of the driver; when it has ended, jobs are submitted through
\* submit_job.
NextEnigma ==
    \/ EnigmaSetup(Runner)
    \/ EnigmaBatchRow(Runner)
    \/ EnigmaSubmit(Runner)
    \/ EnigmaPost(Runner)
    \/ EnigmaSave(Runner)
    \/ enigma[Runner].pc = "done" /\ SubmitJob(Caller)

SpecEnigma == InitEnigma /\ [][NextEnigma]_vars

(***************************************************************************)
(* Two runs of the ENIGMA DTI driver at once, on one filesystem and queue  *)
(***************************************************************************)
InitRace ==
    /\ files = (CHECKLIST :> InitialChecklist) @@ (BLACKLIST :> InitialBlacklist)
    /\ dash_found = TRUE
    /\ db = InitDb
    /\ store = Database(Tables({<<"CMH">>}, {<<"T1">>}, {<<"T1">>}, {}, {}, {}))
    /\ InitCalls
    /\ queue = <<>>
    /\ \E out \in {"none", "scripts"}, s1 \in {"image", "done"}, s2 \in {"absent", "image"}, previous \in BOOLEAN :
         fs = Environment(out, s1, s2, previous)
    /\ \E dry_run \in [Procs -> BOOLEAN] :
         enigma = [p \in Procs |-> StartRun(Arguments(dry_run[p], FALSE, FALSE, FALSE, None), fs)]

NextRace ==
    \/ \E p \in Procs : EnigmaSetup(p)
    \/ \E p \in Procs : EnigmaBatchRow(p)
    \/ \E p \in Procs : EnigmaSubmit(p)
    \/ \E p \in Procs : EnigmaPost(p)
    \/ \E p \in Procs : EnigmaSave(p)

SpecRace == InitRace /\ [][NextRace]_vars

(***************************************************************************)
(* Validation of subject IDs against the configuration                     *)
(***************************************************************************)
\* Subject IDs: of the study and its site, of another site, of another
\* study, of neither, with a session number, and one that does not parse.
SubjectIds ==
    {ID1, ID1S, ID2, ID11, <<"STU", US, "PHA", US, "1", US, "1">>,
     <<"PHA", US, "CMH", US, "1", US, "1">>,
     <<"PHA", US, "PHA", US, "1", US, "1">>, BAD}

\* Study-tag tables of a configuration.
StudyTags ==
    {EmptyDict, STUDY :> <<>>, STUDY :> <<"CMH">>, STUDY :> <<"PHA">>,
     <<"PHA">> :> <<"CMH">>,
     (STUDY :> <<"CMH">>) @@ (<<"PHA">> :> <<"CMH">>),
     (STUDY :> <<"x", "CMH">>) @@ (<<"PHA">> :> <<"PHA">>)}

ValidateSubjectId(p) ==
    /\ Idle(p)
    /\ \E subject_id \in SubjectIds, valid_tags \in StudyTags :
         Finish(p, [NoCall EXCEPT !.op = "validate_subject_id", !.subject = subject_id, !.entries = valid_tags],
                Outcome(validate_subject_id(subject_id, valid_tags), {}))
    /\ UNCHANGED <<files, dash_found, db, store, fs, queue, enigma>>

InitValidate ==
    /\ files = (CHECKLIST :> InitialChecklist) @@ (BLACKLIST :> InitialBlacklist)
    /\ dash_found = FALSE
    /\ db = InitDb
    /\ store = NoStore
    /\ InitCalls
    /\ NoPipeline

NextValidate == ValidateSubjectId(Caller)

SpecValidate == InitValidate /\ [][NextValidate]_vars

(***************************************************************************)
(* A run of dm_redcap_scan_completed                                       *)
(***************************************************************************)
\* Records: of a session of the store, of a new session, with a subject
\* field in lower case, without session part, with a field that is no
\* identifier, with a date that is none, and one that is not complete.
RecordPool ==
    {Record(<<"1">>, ID1, D2, TRUE),
     Record(<<"2">>, ID2, D1, TRUE),
     Record(<<"3">>, <<"stu", US, "CMH", US, "2", US, "1">>, D1, TRUE),
     Record(<<"4">>, <<"STU", US, "CMH", US, "2">>, D1, TRUE),
     Record(<<"5">>, BAD, D1, TRUE),
     Record(<<"6">>, ID2, <<"bad">>, TRUE),
     Record(<<"7">>, ID2, D1, FALSE)}
RecordLists == {<<a, b>> : a, b \in RecordPool}

RedcapScanCompleted(p) ==
    /\ Idle(p)
    /\ \E records \in RecordLists, readable, commit_ok, add_ok \in BOOLEAN :
         \E o \in {ProcessRecords([exc |-> "", store |-> store, statuses |-> EmptyDict], records, files[CHECKLIST], readable, commit_ok, add_ok)} :
             /\ store' = o.store
             /\ Finish(p, [NoCall EXCEPT !.op = "dm_redcap_scan_completed",
                                         !.entries = [k \in {records[i].record_id : i \in 1..Len(records)} |-> <<"record">>],
                                         !.old = [k \in {records[i].record_id : i \in {j \in 1..Len(records) : records[j].status}} |-> <<"complete">>]],
                       Outcome(IF o.exc = "" THEN Returned(DictVal(o.statuses)) ELSE Raised(o.exc), {DASHBOARD}))
    /\ UNCHANGED <<files, dash_found, db, fs, queue, enigma>>

InitRedcap ==
    /\ files = (CHECKLIST :> InitialChecklist) @@ (BLACKLIST :> InitialBlacklist)
    /\ dash_found = TRUE
    /\ db = InitDb
    /\ \E sessions \in {{}, {Session1(1)}, {Session1(1), Session1(2)}} :
         store = Database(Tables({<<"CMH">>}, {<<"T1">>}, {<<"T1">>}, sessions, {}, {}))
    /\ InitCalls
    /\ NoPipeline

NextRedcap == RedcapScanCompleted(Caller)

SpecRedcap == InitRedcap /\ [][NextRedcap]_vars

(***************************************************************************)
(* Properties of reading                                                   *)
(***************************************************************************)
Reader == "p1"

FromFile(op) ==
    /\ call[Reader].op = op
    /\ touched[Reader] = {FILE}
    /\ ret[Reader].exc = ""

ChecklistLines == ReadLines(files[CHECKLIST])
BlacklistLines == ReadLines(files[BLACKLIST])

\* The lines of a checklist file that carry the identifier id.
ChecklistLinesOf(id) ==
    {i \in 1..Len(ChecklistLines) :
        /\ PySplit(ChecklistLines[i]) # <<>>
        /\ ChecklistSubid(PySplit(ChecklistLines[i])) = id}

BlacklistLinesOf(id) ==
    {i \in 1..Len(BlacklistLines) : BlacklistFields(BlacklistLines[i])[1] = id}

First(S) == CHOOSE i \in S : \A j \in S : i <= j

FirstChecklistComment(id) ==
    ChecklistComment(PySplit(ChecklistLines[First(ChecklistLinesOf(id))]))

FirstBlacklistComment(id) ==
    LET fields == BlacklistFields(BlacklistLines[First(BlacklistLinesOf(id))])
    IN  Strip(Join(Tail(fields), <<SP>>))

\* C5: whatever is read from a checklist or blacklist file for an
\* identifier, in the full mapping or in the lookup of one subject or scan,
\* is the comment of the first line of the file that carries the identifier.
C5_FirstOccurrenceWins ==
    /\ FromFile("read_checklist") =>
         LET v == ret[Reader].val
         IN  /\ \A k \in Keys(v.d) : v.d[k] = FirstChecklistComment(k)
             /\ v.t = "str" =>
                  v.s = FirstChecklistComment(
                            get_full_subjectid_with_timepoint(parse(call[Reader].subject)))
    /\ FromFile("read_blacklist") =>
         LET v == ret[Reader].val
         IN  /\ \A k \in Keys(v.d) : v.d[k] = FirstBlacklistComment(k)
             /\ v.t = "str" => v.s = FirstBlacklistComment(call[Reader].scan)

\* Two lines of the checklist carry ID1 with different comments, and the
\* full mapping has been read from the file.
C5_Witness ==
    /\ FromFile("read_checklist")
    /\ call[Reader].subject = None
    /\ Cardinality(ChecklistLinesOf(ID1)) > 1
    /\ \E i \in ChecklistLinesOf(ID1) :
         ChecklistComment(PySplit(ChecklistLines[i])) # FirstChecklistComment(ID1)
    /\ ID1 \in Keys(ret[Reader].val.d)

FullChecklist == _parse_checklist(files[CHECKLIST], None).d

\* The single-subject lookup agrees with the full mapping at key k.
LookupAgrees(k) ==
    ret[Reader].val = IF k \in Keys(FullChecklist)
                      THEN StrVal(FullChecklist[k])
                      ELSE NoneVal

SubjectLookup ==
    /\ FromFile("read_checklist")
    /\ call[Reader].subject # None

\* C6 as stated: read_checklist(subject=s) returns what the full mapping
\* holds for s, and None exactly when s is not one of its keys.
C6_LookupBySubjectAsGiven ==
    SubjectLookup => LookupAgrees(call[Reader].subject)

\* C6, amended: read_checklist(subject=s) returns what the full mapping
\* holds for s without its session number, and None exactly when that
\* identifier is not one of its keys.
C6_LookupBySubject ==
    SubjectLookup =>
        LookupAgrees(get_full_subjectid_with_timepoint(parse(call[Reader].subject)))

\* A subject given with its session number is found under the identifier
\* without it.
C6_Witness ==
    /\ SubjectLookup
    /\ call[Reader].subject = ID1S
    /\ ret[Reader].val.t = "str"
    /\ ID1S \notin Keys(FullChecklist)

\* The mappings get_subject_metadata reads: from the dashboard when it is
\* found, from the files otherwise.
ChecklistRead ==
    IF dash_found THEN _fetch_checklist(db, None).d ELSE FullChecklist

BlacklistRead ==
    IF dash_found THEN _fetch_blacklist(db, None, None).d
    ELSE _parse_blacklist(files[BLACKLIST], None, None).d

SubjectOfScan(b) == get_full_subjectid_with_timepoint(parse_filename(b).ident)

SubjectMetadataOk(m, checklist, blacklist) ==
    /\ Keys(m) = {k \in Keys(checklist) : checklist[k] # <<>>}
    /\ \A k \in Keys(m) :
         m[k] = {b \in Keys(blacklist) :
                    CanParseFilename(b) /\ SubjectOfScan(b) = k}

\* C8: a call of get_subject_metadata returns the signed-off subjects of the
\* checklist, each with exactly the blacklisted scans of that subject, and
\* changes neither the files nor the database.
C8_SubjectMetadata ==
    [][\A p \in Procs :
         (call'[p].op = "get_subject_metadata" /\ ncalls' # ncalls /\ pc[p] = "idle")
         => /\ files' = files
            /\ db' = db
            /\ ret'[p].exc = ""
            /\ SubjectMetadataOk(ret'[p].val.d, ChecklistRead, BlacklistRead)]_vars

\* The aggregate holds ID1 with its scan, while the blacklist also has a
\* scan of a subject that is not in the checklist and one of a subject
\* that is not signed off.
C8_Witness ==
    /\ call[Reader].op = "get_subject_metadata"
    /\ ret[Reader].val.d = (ID1 :> {SCAN1})
    /\ {SCAN2, SCAN11} \subseteq Keys(BlacklistRead)
    /\ ID2 \in Keys(ChecklistRead)
    /\ ID11 \notin Keys(ChecklistRead)

(***************************************************************************)
(* Properties of updating                                                  *)
(***************************************************************************)
W == wr[Writer]

\* The writer's call of op went through the file backend and has returned.
Updated(op) ==
    /\ call[Writer].op = op
    /\ W.state = "returned"
    /\ undisturbed[Writer]

ChecklistNow == _parse_checklist(files[CHECKLIST], None).d
BlacklistNow == _parse_blacklist(files[BLACKLIST], None, None).d

\* A comment as a checklist file keeps it: the words, one space apart.
Normalized(comment) == Join(PySplit(comment), <<SP>>)

WithoutSession(k) == get_full_subjectid_with_timepoint(parse(k))

\* C1 as stated: after update_checklist(D) has returned, the checklist file
\* reads as E overridden by D: every key of D with D's comment, every other
\* key of E with E's comment, and no other key.
C1_RoundTripAsGiven ==
    Updated("update_checklist") =>
        LET E == call[Writer].old
            D == call[Writer].entries
        IN  ChecklistNow = [k \in Keys(E) \cup Keys(D) |->
                               IF k \in Keys(D) THEN D[k] ELSE E[k]]

\* C1, amended: after update_checklist(D) has returned, for a delta whose
\* comments hold no line break, the checklist file reads as E overridden by
\* D taken at its keys without session number and with every comment
\* reduced to its words one space apart.
C1_RoundTrip ==
    Updated("update_checklist") =>
        LET E == call[Writer].old
            D == call[Writer].entries
            short == {WithoutSession(k) : k \in Keys(D)}
        IN  (\A k \in Keys(D) : \A i \in 1..Len(D[k]) : D[k][i] # NL)
            => ChecklistNow = [k \in Keys(E) \cup short |->
                                  IF k \in short THEN Normalized(D[k]) ELSE E[k]]

\* An update has replaced the comment of a subject and kept another
\* subject of the file as it was.
C1_Witness ==
    /\ Updated("update_checklist")
    /\ \E k \in Keys(call[Writer].entries) \cap Keys(call[Writer].old) :
         /\ call[Writer].old[k] # call[Writer].entries[k]
         /\ ChecklistNow[k] = call[Writer].entries[k]
    /\ \E k \in Keys(call[Writer].old) \ Keys(call[Writer].entries) :
         /\ k \in Keys(ChecklistNow)
         /\ ChecklistNow[k] = call[Writer].old[k]

\* C2: from the call of write_metadata on, whether the attempts succeed or
\* fail, the file holds either the whole text it held before or the whole
\* new text.
C2_AtomicReplace ==
    W.state # "" => files[W.path] \in {W.before, Cat(W.lines)}

\* C3: write_metadata makes at most three attempts, returns at the first
\* attempt that succeeds, raises MetadataException exactly when three
\* attempts have failed, and always ends.
C3_BoundedRetry ==
    /\ [](/\ W.attempts <= DefaultRetry
          /\ W.state = "returned" =>
               /\ W.failures = W.attempts - 1
               /\ ret[Writer].exc = ""
          /\ W.state = "raised" =>
               /\ W.failures = DefaultRetry
               /\ ret[Writer].exc = "MetadataException"
          /\ (W.failures = DefaultRetry /\ pc[Writer] = "idle") => W.state = "raised")
    /\ (W.state = "running") ~> (W.state \in {"returned", "raised"})

\* write_metadata has raised after three failed attempts.
C3_Witness ==
    /\ W.state = "raised"
    /\ W.attempts = 3
    /\ ret[Writer].exc = "MetadataException"

\* C4 as stated: after update_blacklist(D), a scan of D with an empty reason
\* is absent from the file and every scan of D with a reason is in it.
C4_EmptyReasonAsGiven ==
    Updated("update_blacklist") =>
        \A k \in Keys(call[Writer].entries) :
            IF call[Writer].entries[k] = <<>>
            THEN k \notin Keys(BlacklistNow)
            ELSE k \in Keys(BlacklistNow)

\* C4, amended: after update_blacklist(D), the file holds for a scan of D
\* with an empty reason what it held before the call (nothing, if the scan
\* was not in it), and every scan of D with a reason is in it.
C4_EmptyReason ==
    Updated("update_blacklist") =>
        LET E == call[Writer].old
            D == call[Writer].entries
        IN  \A k \in Keys(D) :
                IF D[k] = <<>>
                THEN /\ k \in Keys(BlacklistNow) <=> k \in Keys(E)
                     /\ k \in Keys(E) => BlacklistNow[k] = E[k]
                ELSE k \in Keys(BlacklistNow)

\* One delta had a scan with an empty reason, now absent, and a scan with a
\* reason, now in the file.
C4_Witness ==
    /\ Updated("update_blacklist")
    /\ \E k \in Keys(call[Writer].entries) :
         call[Writer].entries[k] = <<>> /\ k \notin Keys(BlacklistNow)
    /\ \E k \in Keys(call[Writer].entries) :
         call[Writer].entries[k] # <<>> /\ k \in Keys(BlacklistNow)

Local(p) == <<pc[p], call[p], ret[p], wr[p], touched[p]>>

MetadataOps ==
    {"read_checklist", "update_checklist", "read_blacklist", "update_blacklist"}

\* C7: every step of a call of read_checklist, update_checklist,
\* read_blacklist or update_blacklist keeps to one backend: with the
\* dashboard found and no path given it uses the dashboard only and leaves
\* the files alone, otherwise it uses the files only and leaves the
\* database alone.
C7_OneBackend ==
    [][\A p \in Procs :
         ((\A q \in Procs \ {p} : Local(q)' = Local(q)) /\ call'[p].op \in MetadataOps)
         => IF dash_found /\ ~call'[p].path
            THEN files' = files /\ touched'[p] \subseteq {DASHBOARD}
            ELSE db' = db /\ touched'[p] \subseteq {FILE}]_vars

\* With the dashboard found, an update given a path has rewritten the file
\* and a read given no path has asked the dashboard.
C7_Witness ==
    /\ dash_found
    /\ call[Writer].op = "update_checklist"
    /\ call[Writer].path
    /\ W.state = "returned"
    /\ touched[Writer] = {FILE}
    /\ call[Observer].op = "read_checklist"
    /\ ~call[Observer].path
    /\ touched[Observer] = {DASHBOARD}

(***************************************************************************)
(* Properties of the dashboard reconciliation                              *)
(***************************************************************************)
\* The call of the operation that the step finishes, if it is one.
Called(op) == call'[Caller].op = op /\ ncalls' = ncalls + 1

\* More than one session of the study has the name.
AmbiguousSession(s, session_name) ==
    \E a, b \in s.sessions :
        /\ a.id # b.id
        /\ a.study = s.study /\ b.study = s.study
        /\ a.name = session_name /\ b.name = session_name

\* C9: when the store holds more than one session of the study with the
\* session name, get_add_session raises DashboardException, whatever create
\* and date are.
C9_AmbiguousSessionRaises ==
    [][Called("get_add_session")
       /\ AmbiguousSession(store.session, call'[Caller].subject)
       => ret'[Caller].exc = "DashboardException"]_vars

\* The scans of the store that match the scan name: named by its scan id,
\* with its repeat number when the name has a session number, and linked to
\* a session of the study that has the name of its session.
MatchingScans(s, scan_name) ==
    LET f == parse_filename(scan_name)
        scan_id == Join(<<get_full_subjectid_with_timepoint_session(f.ident),
                          f.tag, f.series>>, <<US>>)
    IN  {sc \in s.scans :
            /\ sc.name = scan_id
            /\ f.ident.session # None => sc.repeat_number = IntOf(f.ident.session)
            /\ \E l \in s.links, se \in s.sessions :
                 /\ l.scan_id = sc.id /\ l.session_id = se.id
                 /\ se.study = s.study
                 /\ se.name = get_full_subjectid_with_timepoint(f.ident)}

AmbiguousScan(s, scan_name) ==
    CanParseFilename(scan_name) /\ Cardinality(MatchingScans(s, scan_name)) > 1

\* C10: when more than one scan of the store matches the study, the
\* session, the scan id and the repeat number of the scan name, get_add_scan
\* raises DashboardException and the database is as it was: no scan row is
\* created, changed or returned.
C10_AmbiguousScanRaises ==
    [][Called("get_add_scan") /\ AmbiguousScan(store.session, call'[Caller].scan)
       => /\ ret'[Caller] = RaisedMsg("DashboardException", <<"Scan not unique">>)
          /\ store' = store]_vars

\* get_add_scan has been called, with create set, for a scan name that two
\* scans of the store match, and has raised.
C10_Witness ==
    /\ call[Caller].op = "get_add_scan"
    /\ call[Caller].create
    /\ AmbiguousScan(store.committed, call[Caller].scan)
    /\ ret[Caller] = RaisedMsg("DashboardException", <<"Scan not unique">>)
    /\ Cardinality(store.committed.scans) = 2

\* The session rows that the step has added to the unit of work.
NewSessions == {r \in store'.session.sessions : \A q \in store.session.sessions : q.id # r.id}

\* C11: when no site of the study has the site code of the parsed session
\* name, get_add_session raises DashboardException('Invalid site') and no
\* session row is created or modified; a session that a step creates has a
\* site of the study, the one named by the site code of its identifier.
C11_InvalidSiteFailsClosed ==
    [][/\ Called("get_add_session")
          /\ store.session.study # None
          /\ CanParse(call'[Caller].subject)
          /\ parse(call'[Caller].subject).site \notin store.session.sites
          => /\ ret'[Caller] = RaisedMsg("DashboardException", <<"Invalid site">>)
             /\ store' = store
       /\ \A r \in NewSessions :
             /\ r.site \in store.session.sites
             /\ r.site = parse(r.name).site]_vars

\* get_add_session has been asked to create a session whose site the study
\* does not have, and has raised; the database holds no session.
C11_Witness ==
    /\ call[Caller].op = "get_add_session"
    /\ call[Caller].create
    /\ CanParse(call[Caller].subject)
    /\ parse(call[Caller].subject).site \notin store.session.sites
    /\ ret[Caller] = RaisedMsg("DashboardException", <<"Invalid site">>)
    /\ store.committed.sessions = {}
    /\ store.session.sessions = {}

\* The scan ids that the names of a list stand for.
ListedIds(scanlist) ==
    {Join(<<get_full_subjectid_with_timepoint_session(parse_filename(scanlist[i]).ident),
            parse_filename(scanlist[i]).tag, parse_filename(scanlist[i]).series>>, <<US>>) :
        i \in {k \in 1..Len(scanlist) : CanParseFilename(scanlist[k])}}

ScanIds(t) == {x.id : x \in t.scans}

\* A link that makes its scan a linked one: it is not primary, or the scan
\* it leads to has the type SPRL.
LinkOfLinked(t, l) ==
    \/ ~l.is_primary
    \/ \E x \in t.scans : x.id = l.scan_id /\ x.scantype = SPRL

\* The primary, not linked scans under the session of the label that have
\* its repeat number.
ScansOfRepeat(t, session_label) ==
    LET ident == parse(session_label)
    IN  {x \in t.scans :
           /\ x.scantype # SPRL
           /\ x.repeat_number = IntOf(ident.session)
           /\ \E l \in t.links, r \in t.sessions :
                /\ l.scan_id = x.id /\ l.session_id = r.id /\ l.is_primary
                /\ r.study = t.study
                /\ r.name = get_full_subjectid_with_timepoint(ident)}

\* C12: delete_extra_scans deletes no linked scan: a scan that a link which
\* is not primary leads to, or that has the type SPRL, is there with its
\* link after the call, in the list or not; and no scan that the list names
\* is deleted.
C12_LinkedAndListedKept ==
    [][Called("delete_extra_scans")
       => /\ \A l \in store.session.links :
               l.scan_id \in ScanIds(store.session) /\ LinkOfLinked(store.session, l)
               => /\ l \in store'.session.links
                  /\ l.scan_id \in ScanIds(store'.session)
          /\ \A x \in store.session.scans :
               x.name \in ListedIds(call'[Caller].scanlist)
               => x.id \in ScanIds(store'.session)]_vars

\* C13: after delete_extra_scans has returned, every primary, not linked
\* scan that is left under the session with its repeat number is named by
\* the list, and the scan rows that the call has removed were primary, not
\* linked scans of that session and repeat number.
C13_OnlyExtraScansRemoved ==
    [][Called("delete_extra_scans") /\ ret'[Caller].exc = ""
       => /\ \A x \in ScansOfRepeat(store'.session, call'[Caller].subject) :
               x.name \in ListedIds(call'[Caller].scanlist)
          /\ \A x \in store.session.scans :
               x.id \notin ScanIds(store'.session)
               => x \in ScansOfRepeat(store.session, call'[Caller].subject)]_vars

\* C14: the deletions of a call of delete_extra_scans are one transaction:
\* a call that fails removes no scan and no link from the committed store,
\* and a call that returns has removed, for every scan of the session and
\* repeat number that the list does not name, a scan of its name with a
\* link of it.
C14_DeletionsAreOneTransaction ==
    [][Called("delete_extra_scans")
       => IF ret'[Caller].exc # ""
          THEN /\ ScanIds(store.committed) \subseteq ScanIds(store'.committed)
               /\ store.committed.links \subseteq store'.committed.links
          ELSE \A x \in ScansOfRepeat(store.committed, call'[Caller].subject) :
                  x.name \notin ListedIds(call'[Caller].scanlist)
                  => \E y \in store.committed.scans, l \in store.committed.links :
                       /\ y.name = x.name /\ l.scan_id = y.id
                       /\ y.id \notin ScanIds(store'.committed)
                       /\ l \notin store'.committed.links]_vars

(***************************************************************************)
(* Properties of the ENIGMA DTI driver and of job submission               *)
(***************************************************************************)
R == enigma[Runner]
cmds_file == PathJoin(mkdtemp(Runner), <<"commands.txt">>)
post_name == job_name_prefix \o <<"_post">>

\* The submissions of a job name that the queue system got.
Submissions(name) == {k \in 1..Len(queue) : queue[k].cmd.N = name}
ArrayJobs == Submissions(job_name_prefix)
PostJobs == Submissions(post_name)

\* The rows the loop does not skip for the filter or for a missing image,
\* and those of them whose marker of completed output is there.
Selected(row) ==
    /\ R.args.subject_filter = None \/ Contains(row.id, R.args.subject_filter)
    /\ row.FA_nii # None
Marked(row) == isfile(fs, edti_completed(OUTPUT_DIR, row.id, row.FA_nii))
Rows == {R.checklist[k] : k \in 1..Len(R.checklist)}
Lines == {R.cmds[k] : k \in 1..Len(R.cmds)}

\* C15: a subject whose marker of completed output exists gets no line in
\* the batch file, and a run in which every selected subject has its
\* marker leaves the batch file empty and submits neither the array job
\* nor the post job.
C15_SentinelIdempotency ==
    /\ \A row \in Rows :
         Selected(row) /\ Marked(row) =>
             /\ row.id \notin Lines
             /\ R.pc = "batch" => ~Contains(fs[cmds_file], BatchLine(row.id, row.FA_nii))
    /\ (\A row \in Rows : Selected(row) => Marked(row)) =>
             /\ Lines = {}
             /\ R.pc = "batch" => fs[cmds_file] = <<>>
             /\ ArrayJobs = {}
             /\ PostJobs = {}

\* A run outside dry-run has ended that had selected subjects, all with
\* their markers.
C15_Witness ==
    /\ R.pc = "done" /\ R.status = 0
    /\ ~R.args.dry_run /\ ~R.args.post_only
    /\ \E row \in Rows : Selected(row)
    /\ \A row \in Rows : Selected(row) => Marked(row)

\* The run has come to its end.
Ended == R.pc = "done" /\ R.status = 0

\* The post submissions come after the array submissions and wait for the
\* array job's prefix; each job is submitted at most once.
PostAfterArray ==
    /\ \A a \in ArrayJobs, b \in PostJobs : a < b
    /\ \A b \in PostJobs : queue[b].cmd.afterok = job_name_prefix
    /\ Cardinality(ArrayJobs) <= 1
    /\ Cardinality(PostJobs) <= 1

\* C16 as stated: in a run the array job is submitted if and only if a
\* line was written to the batch file, the post job if and only if the
\* array job is, the post job after the array job and with the array
\* job's prefix as its afterok dependency, each at most once.
C16_ArrayIffLines ==
    /\ Ended => (ArrayJobs # {} <=> Lines # {})
    /\ Ended => (PostJobs # {} <=> ArrayJobs # {})
    /\ PostAfterArray

\* C16 amended: outside dry-run the submission command of the array job is
\* run if and only if a line was written to the batch file and that of the
\* post job if and only if that of the array job is, the post job after
\* the array job and with the array job's prefix as its afterok
\* dependency, each at most once; in dry-run neither is run.
C16_SubmissionsOutsideDryRun ==
    /\ Ended /\ ~R.args.dry_run => (ArrayJobs # {} <=> Lines # {})
    /\ Ended /\ ~R.args.dry_run => (PostJobs # {} <=> ArrayJobs # {})
    /\ R.args.dry_run => ArrayJobs = {} /\ PostJobs = {}
    /\ PostAfterArray

\* A run outside dry-run has written lines and has submitted both jobs.
C16_Witness ==
    /\ Ended
    /\ ~R.args.dry_run
    /\ Len(R.cmds) = 2
    /\ ArrayJobs # {}
    /\ PostJobs # {}

\* The paths that are not as they were when the run started (the job file
\* of submit_job aside).
RunChanges ==
    {x \in (Keys(fs) \cup Keys(R.before)) \ {PathJoin(TMP, JOB)} :
        \/ x \notin Keys(fs)
        \/ x \notin Keys(R.before)
        \/ fs[x] # R.before[x]}

\* C17: a dry run that has ended has submitted no job, has not written
\* the checklist file, and has created or modified no other file or
\* directory.
C17_DryRunPersistsNothing ==
    R.args.dry_run /\ R.pc = "done" =>
        /\ ArrayJobs = {}
        /\ PostJobs = {}
        /\ RunChanges = {}

\* C18: with --no-post the post job is never submitted.
C18_NoPostSubmitsNoPostJob == R.args.no_post => PostJobs = {}

\* C19: a run with --post-only (outside dry-run, without --no-post) that
\* has come to its end has submitted the post job and no array job.
C19_PostOnlySubmitsPostJob ==
    Ended /\ R.args.post_only /\ ~R.args.no_post /\ ~R.args.dry_run =>
        /\ PostJobs # {}
        /\ ArrayJobs = {}

\* C20: when the queue system answers a submission with a non-zero code,
\* submit_job ends the process with exit status 1, and a run of the
\* driver whose array or post submission got that answer ends with a
\* non-zero exit status.
C20_RejectionEndsTheRun ==
    /\ call[Caller].op = "submit_job" /\ ~call[Caller].dryrun /\ call[Caller].returncode # 0 =>
           ret[Caller] = RaisedMsg("SystemExit", <<"1">>)
    /\ R.pc = "done" /\ (\E k \in ArrayJobs \cup PostJobs : queue[k].rtn # 0) =>
           R.status # 0

\* The checklist in the file now, and the one that was there when the run
\* started; the date_ran a subject had then (none for a new subject).
Persisted == load_checklist(fs, checklist_file)
Previous == load_checklist(R.before, checklist_file)
PreviousDate(id) ==
    IF \E k \in 1..Len(Previous) : Previous[k].id = id
    THEN Previous[CHOOSE k \in 1..Len(Previous) : Previous[k].id = id].date_ran
    ELSE None

\* The file holds the rows of the run's checklist, with today's date for
\* exactly the rows a batch line was written for.
DateRanForLinesOnly ==
    /\ isfile(fs, checklist_file)
    /\ Len(Persisted) = Len(R.checklist)
    /\ \A k \in 1..Len(Persisted) :
         /\ Persisted[k].id = R.checklist[k].id
         /\ Persisted[k].date_ran = IF Persisted[k].id \in Lines THEN TODAY
                                    ELSE PreviousDate(Persisted[k].id)
    /\ \A id \in Lines : \E k \in 1..Len(Persisted) : Persisted[k].id = id

\* C21 as stated: outside dry-run the checklist is persisted at the end of
\* every run, and date_ran is updated for exactly the rows a batch line was
\* written for.
C21_ChecklistPersistedEveryRun ==
    R.pc = "done" /\ ~R.args.dry_run =>
        /\ isfile(fs, checklist_file)
        /\ Ended => DateRanForLinesOnly

\* C21 amended: outside dry-run a run that comes to its end (it does not
\* exit for want of subjects or over a run script that does not match)
\* has persisted the checklist, whatever the queue system answered, with
\* date_ran updated for exactly the rows a batch line was written for.
C21_ChecklistPersistedAtTheEnd ==
    Ended /\ ~R.args.dry_run => DateRanForLinesOnly

\* A run outside dry-run has ended after a rejected submission; it wrote a
\* line for one subject and skipped another that had a date.
C21_Witness ==
    /\ Ended /\ ~R.args.dry_run
    /\ \E k \in ArrayJobs : queue[k].rtn # 0
    /\ Lines # {}
    /\ \E k \in 1..Len(Persisted) :
         Persisted[k].id \notin Lines /\ Persisted[k].date_ran = YESTERDAY

\* The subject of a line of the checklist file, as _parse_checklist takes
\* it (nothing for a blank line), and the subjects of the lines in order.
SubjectOfLine(line) ==
    IF PySplit(line) = <<>> THEN <<>> ELSE ChecklistSubid(PySplit(line))
FileSubjects == [i \in 1..Len(ChecklistLines) |-> SubjectOfLine(ChecklistLines[i])]

\* The lines are those of the merged mapping, one for each of its
\* subjects, in ascending order of subject ID.
OneLinePerSubjectSorted ==
    LET E == call[Writer].old
        D == call[Writer].entries
        merged == Keys(E) \cup {WithoutSession(k) : k \in Keys(D)}
    IN  /\ Len(FileSubjects) = Cardinality(merged)
        /\ {FileSubjects[i] : i \in 1..Len(FileSubjects)} = merged
        /\ \A i, j \in 1..Len(FileSubjects) :
             i < j => StrLess(FileSubjects[i], FileSubjects[j])

\* C22 as stated: the checklist file that update_checklist has written has
\* exactly one line per subject, in ascending order of subject ID.
C22_OneLinePerSubjectAsGiven ==
    Updated("update_checklist") => OneLinePerSubjectSorted

\* C22 amended: for a delta whose comments hold no line break, the
\* checklist file that update_checklist has written has exactly one line
\* per subject ID of the merged mapping, in ascending order of subject ID.
C22_OneLinePerSubject ==
    Updated("update_checklist") =>
        ((\A k \in Keys(call[Writer].entries) :
             \A i \in 1..Len(call[Writer].entries[k]) : call[Writer].entries[k][i] # NL)
         => OneLinePerSubjectSorted)

\* An update has written a file of three subjects, one of them a prefix of
\* another.
C22_Witness ==
    /\ Updated("update_checklist")
    /\ FileSubjects = <<ID1, ID11, ID2>>

\* The scan names of the lines of the blacklist file after the first.
FileScans == [i \in 1..(Len(BlacklistLines) - 1) |-> BlacklistFields(BlacklistLines[i + 1])[1]]

\* The entries of the delta that have a reason.
WithReason(D) == {k \in Keys(D) : D[k] # <<>>}

\* A reason as a blacklist file gives it back: every comma and every
\* whitespace character a space, none at either end.
ReasonRead(reason) ==
    Strip([i \in 1..Len(reason) |->
             IF reason[i] \in Whitespace \cup {COMMA} THEN SP ELSE reason[i]])

\* The file is the header line and then one line per scan of the merged
\* mapping, in ascending order of scan name; the header is no entry.
HeaderThenScansSorted ==
    LET merged == Keys(call[Writer].old) \cup WithReason(call[Writer].entries)
    IN  /\ BlacklistLines # <<>>
        /\ BlacklistLines[1] = <<"series", TAB, "reason">>
        /\ Len(FileScans) = Cardinality(merged)
        /\ {FileScans[i] : i \in 1..Len(FileScans)} = merged
        /\ \A i, j \in 1..Len(FileScans) : i < j => StrLess(FileScans[i], FileScans[j])
        /\ <<"series">> \notin Keys(BlacklistNow)

\* C23 as stated: after update_blacklist(D, path=p) has returned, the file
\* is the header and one line per scan sorted by scan name, and it reads as
\* the previous entries overridden by the entries of D that have a reason,
\* each with the reason that was written.
C23_BlacklistRoundTripAsGiven ==
    Updated("update_blacklist") =>
        LET E == call[Writer].old
            D == call[Writer].entries
        IN  /\ HeaderThenScansSorted
            /\ BlacklistNow = [k \in Keys(E) \cup WithReason(D) |->
                                 IF k \in WithReason(D) THEN D[k] ELSE E[k]]

\* C23 amended: after update_blacklist(D, path=p) has returned, for a
\* delta whose reasons hold no line break, the file is the header and one
\* line per scan sorted by scan name, and it reads as the previous entries
\* overridden by the entries of D that have a reason, each reason with its
\* commas and whitespace characters turned into spaces and stripped.
C23_BlacklistRoundTrip ==
    Updated("update_blacklist") =>
        LET E == call[Writer].old
            D == call[Writer].entries
        IN  (\A k \in Keys(D) : \A i \in 1..Len(D[k]) : D[k][i] # NL) =>
              /\ HeaderThenScansSorted
              /\ BlacklistNow = [k \in Keys(E) \cup WithReason(D) |->
                                   IF k \in WithReason(D) THEN ReasonRead(D[k]) ELSE E[k]]

\* An update has added a scan to the scan of the file; its reason had a
\* comma and reads back with a space.
C23_Witness ==
    /\ Updated("update_blacklist")
    /\ FileScans = <<SCAN11, SCAN1>>
    /\ call[Writer].entries[SCAN11] = <<"x", COMMA, "y">>
    /\ BlacklistNow[SCAN11] = <<"x", SP, "y">>

\* C24: a call of update_blacklist that goes to the database leaves the
\* blacklist of the database as it was for every scan of the delta that has
\* an empty reason: no entry is made for it and none is changed.
C24_EmptyReasonRejectedByDatabase ==
    [][(/\ call'[Writer].op = "update_blacklist"
        /\ ncalls' = ncalls + 1
        /\ UseDashboard(dash_found, call'[Writer].path))
       => \A k \in Keys(call'[Writer].entries) :
            call'[Writer].entries[k] = <<>> =>
                /\ k \in Keys(db'.blacklist) <=> k \in Keys(db.blacklist)
                /\ k \in Keys(db.blacklist) => db'.blacklist[k] = db.blacklist[k]]_vars

\* C25: a call of update_checklist or update_blacklist on the file backend
\* that fails at an entry of the delta raises MetadataException and leaves
\* the files as they were.
C25_DeltaFailureIsMetadataException ==
    [][(/\ call'[Writer].op \in {"update_checklist", "update_blacklist"}
        /\ call'[Writer].n = ncalls + 1
        /\ ~UseDashboard(dash_found, call'[Writer].path)
        /\ ret'[Writer].exc # "")
       => /\ ret'[Writer].exc = "MetadataException"
          /\ files' = files]_vars

\* C26: validate_subject_id returns the parsed identifier exactly when the
\* subject ID parses, its study code is a key of the study-tag table and
\* its site code is in the list of that study; otherwise it raises
\* RuntimeError: for an ID that does not parse, else for an unknown study
\* code (whatever the site), else for an unknown site, each with a
\* condition of its own.
C26_ValidateSubjectId ==
    call[Caller].op = "validate_subject_id" =>
        LET id == call[Caller].subject
            tags == call[Caller].entries
            known_study == CanParse(id) /\ parse(id).study \in Keys(tags)
            known_site == known_study /\
                \E i \in 1..Len(tags[parse(id).study]) : <<tags[parse(id).study][i]>> = parse(id).site
        IN  /\ ret[Caller].exc = "" <=> known_site
            /\ ret[Caller].exc = "" => ret[Caller].val.s = id
            /\ ret[Caller].exc # "" => ret[Caller].exc = "RuntimeError"
            /\ ~CanParse(id) => ret[Caller].val.s = <<"does not match datman convention">>
            /\ CanParse(id) /\ ~known_study => ret[Caller].val.s = <<"has undefined study code">>
            /\ known_study /\ ~known_site => ret[Caller].val.s = <<"has undefined site">>

\* The second call, for a subject ID of a known study and a site that the
\* study does not have, has raised.
C26_Witness ==
    /\ call[Caller].op = "validate_subject_id"
    /\ call[Caller].n = 2
    /\ call[Caller].subject = <<"STU", US, "PHA", US, "1", US, "1">>
    /\ STUDY \in Keys(call[Caller].entries)
    /\ ret[Caller] = RaisedMsg("RuntimeError", <<"has undefined site">>)

\* C27: a run of dm_redcap_scan_completed does not abort, whatever fails
\* at a record, and every complete record of the batch is processed: it is
\* added or it is skipped.
C27_RecordFailureIsSkipped ==
    call[Caller].op = "dm_redcap_scan_completed" =>
        /\ ret[Caller].exc = ""
        /\ Keys(ret[Caller].val.d) = Keys(call[Caller].old)

\* A line of a blacklist whose scan name does not parse.
MalformedBlacklistLine(line) == ~CanParseFilename(BlacklistFields(line)[1])

RECURSIVE Unlines(_)
Unlines(lines) ==
    IF lines = <<>> THEN <<>>
    ELSE Head(lines) \o <<NL>> \o Unlines(Tail(lines))

\* The files without their lines of malformed identifier.
WellFormedChecklist ==
    Unlines(SelectSeq(ChecklistLines, LAMBDA l : ~MalformedChecklistLine(l)))
WellFormedBlacklist ==
    Unlines(SelectSeq(BlacklistLines, LAMBDA l : ~MalformedBlacklistLine(l)))

\* C28: reading a checklist or blacklist file does not fail because of a
\* line whose identifier is malformed, and returns what reading the file
\* without those lines returns.
C28_MalformedLinesAreSkipped ==
    /\ call[Reader].op = "read_checklist" /\ touched[Reader] = {FILE} =>
        /\ ret[Reader].exc = ""
        /\ ret[Reader] = read_checklist(WellFormedChecklist, db, dash_found,
                                        call[Reader].subject, call[Reader].path).ret
    /\ call[Reader].op = "read_blacklist" /\ touched[Reader] = {FILE} =>
        /\ ret[Reader].exc = ""
        /\ ret[Reader] = read_blacklist(WellFormedBlacklist, db, dash_found,
                                        call[Reader].scan, call[Reader].subject,
                                        call[Reader].path).ret

\* A checklist whose first line has a malformed identifier and whose second
\* line is an entry has been read, and the entry is in the result.
C28_Witness ==
    /\ FromFile("read_checklist")
    /\ call[Reader].subject = None
    /\ Len(ChecklistLines) = 2
    /\ MalformedChecklistLine(ChecklistLines[1])
    /\ ~MalformedChecklistLine(ChecklistLines[2])
    /\ Keys(ret[Reader].val.d) = {ID1}

\* The same of a blacklist.
C28_WitnessBlacklist ==
    /\ FromFile("read_blacklist")
    /\ call[Reader].scan = None /\ call[Reader].subject = None
    /\ Len(BlacklistLines) = 2
    /\ BlacklistFields(BlacklistLines[1])[1] = BAD
    /\ Keys(ret[Reader].val.d) = {SCAN1}

\* The session rows of the study that have the name.
SessionRows(s, name) == {r \in s.sessions : r.study = s.study /\ r.name = name}

OneRowPerKey(s) == \A name \in SessionNames : Cardinality(SessionRows(s, name)) <= 1

\* A call of get_add_session makes a row only for its own session name,
\* only with create, and only when the store has no row of that name; a
\* store with at most one row for a name has at most one after the call.
CreatesOnlyWhenAbsent ==
    /\ \A name \in SessionNames :
         Cardinality(SessionRows(store'.session, name)) > Cardinality(SessionRows(store.session, name)) =>
             /\ name = call'[Caller].subject
             /\ call'[Caller].create
             /\ SessionRows(store.session, name) = {}
    /\ OneRowPerKey(store.session) /\ OneRowPerKey(store.committed) =>
           OneRowPerKey(store'.session) /\ OneRowPerKey(store'.committed)

\* The arguments of the call pass the tests that precede the query.
ValidArguments ==
    /\ CanParse(call'[Caller].subject)
    /\ ~InvalidSite(store.session, parse(call'[Caller].subject))
    /\ call'[Caller].date # None => CanParseDate(call'[Caller].date)

\* C29 as stated: with create=False on an absent session get_add_session
\* returns None and writes nothing to the store; with create=True it
\* creates the session only when it is absent, so that sequential calls
\* leave at most one row for a (study, session name).
C29_UpsertAsGiven ==
    [][Called("get_add_session") =>
         /\ ~call'[Caller].create /\ SessionRows(store.session, call'[Caller].subject) = {} =>
                ret'[Caller] = Returned(NoneVal) /\ store' = store
         /\ CreatesOnlyWhenAbsent]_vars

\* C29: with create=False on an absent session get_add_session writes
\* nothing to the store, and returns None when the session name, its site
\* and the date pass the tests that precede the query (it raises
\* DashboardException when they do not); with create=True it creates the
\* session only when it is absent, so that sequential calls leave at most
\* one row for a (study, session name).
C29_Upsert ==
    [][Called("get_add_session") =>
         /\ ~call'[Caller].create /\ SessionRows(store.session, call'[Caller].subject) = {} =>
                /\ store' = store
                /\ IF ValidArguments THEN ret'[Caller] = Returned(NoneVal)
                   ELSE ret'[Caller].exc = "DashboardException"
         /\ CreatesOnlyWhenAbsent]_vars

\* Two calls with create for a session that the store did not have have
\* returned, and the store has one row for it.
C29_Witness ==
    /\ call[Caller].op = "get_add_session"
    /\ call[Caller].subject = ID2
    /\ call[Caller].create
    /\ call[Caller].n = 2
    /\ ret[Caller].exc = "" /\ ret[Caller].val.t = "Session"
    /\ Cardinality(SessionRows(store.committed, ID2)) = 1
    /\ Cardinality(store.committed.sessions) = 1

\* The one session row of the study that has the name.
TheSession(s, name) == CHOOSE r \in SessionRows(s, name) : TRUE

\* C30: a call of get_add_session for an existing session, with arguments
\* that pass the tests before the query and without failure of the commit,
\* leaves the supplied date as the stored date when it differs from it and
\* leaves the stored date as it is otherwise, and nothing the call changed
\* is left uncommitted: the date and the checklist comment are committed
\* together.
C30_DateReconciled ==
    [][/\ Called("get_add_session")
       /\ ValidArguments
       /\ Cardinality(SessionRows(store.session, call'[Caller].subject)) = 1
       /\ ret'[Caller] # Returned(NoneVal)
       => /\ Cardinality(SessionRows(store'.session, call'[Caller].subject)) = 1
          /\ TheSession(store'.session, call'[Caller].subject).date =
                IF call'[Caller].date # None
                   /\ strptime(call'[Caller].date) # TheSession(store.session, call'[Caller].subject).date
                THEN strptime(call'[Caller].date)
                ELSE TheSession(store.session, call'[Caller].subject).date
          /\ store'.committed = store'.session]_vars

\* The comment that the checklist file holds for the session name.
FileComment(name) == check_checklist(files[CHECKLIST], TRUE, name).val.s

\* What a view of the store holds besides the rows of the session name.
OtherRows(s, name) == [s EXCEPT !.sessions = @ \ SessionRows(s, name)]

\* C31: a call of get_add_session on a store without uncommitted changes
\* changes, of the rows that the store held, nothing but the date and the
\* checklist comment of the named session; the comment changes only to the
\* comment of the checklist file, and only when that comment is not empty
\* and differs from the stored one; a call that returns the session leaves
\* it with the file's comment in that case.
C31_ChecklistSync ==
    [][/\ Called("get_add_session")
       /\ CanParse(call'[Caller].subject)
       /\ store.committed = store.session
       => \A v \in {store'.session, store'.committed} :
            /\ OtherRows(v, call'[Caller].subject) = OtherRows(store.session, call'[Caller].subject)
            /\ \A r \in SessionRows(store.session, call'[Caller].subject) :
                 \E q \in SessionRows(v, call'[Caller].subject) :
                   /\ q = [r EXCEPT !.date = q.date, !.cl_comment = q.cl_comment]
                   /\ q.cl_comment # r.cl_comment =>
                          q.cl_comment = FileComment(r.name) /\ FileComment(r.name) # <<>>
                   /\ ret'[Caller].exc = "" /\ ret'[Caller].val.t = "Session"
                      /\ FileComment(r.name) # <<>> => q.cl_comment = FileComment(r.name)]_vars

\* A session with a stored comment that the file does not have has been
\* returned with its comment, and a session whose stored comment differs
\* from the file's has the file's.
C31_Witness ==
    /\ call[Caller].op = "get_add_session"
    /\ call[Caller].subject = ID2
    /\ ret[Caller].exc = "" /\ ret[Caller].val.t = "Session"
    /\ FileComment(ID2) = <<>>
    /\ \E r \in SessionRows(store.committed, ID2) : r.cl_comment = <<"y">>
    /\ \E r \in SessionRows(store.committed, ID1) : r.cl_comment = <<"x">> /\ FileComment(ID1) = <<"x">>
    /\ call[Caller].n = 2

\* get_add_scan was called with create and has failed for the type of the
\* scan.
FailedForScantype ==
    /\ Called("get_add_scan")
    /\ call'[Caller].create
    /\ ret'[Caller] = RaisedMsg("DashboardException", <<"Invalid scantype">>)

\* C32 as stated: when get_add_scan(create=True) fails for the type of the
\* scan, nothing that the call wrote is in the store: no scan row, no link
\* and no session row of the call.
C32_ScanUpsertFailsClosedAsGiven ==
    [][FailedForScantype /\ store.committed = store.session => store' = store]_vars

\* C32: when get_add_scan(create=True) fails for the type of the scan, it
\* raises DashboardException and the store has no scan row and no link of
\* the call, and no uncommitted change; what get_add_session has written
\* for the session of the scan is committed.
C32_ScanUpsertFailsClosed ==
    [][FailedForScantype =>
         /\ store'.session.scans = store.session.scans
         /\ store'.session.links = store.session.links
         /\ store'.committed = store'.session]_vars

\* get_add_scan has failed for the type of a scan whose session the store
\* did not have: the session is in the store, without scan.
C32_Witness ==
    /\ call[Caller].op = "get_add_scan"
    /\ call[Caller].create
    /\ call[Caller].scan = SCAN2
    /\ ret[Caller] = RaisedMsg("DashboardException", <<"Invalid scantype">>)
    /\ \E r \in SessionRows(store.committed, ID2) : r.cl_comment = <<>>
    /\ store.committed.scans = {}

\* The comment that the blacklist file holds for the scan name.
FileBlacklistComment(scan_name) == check_blacklist(files[BLACKLIST], TRUE, scan_name).val.s

\* C33: a call of get_add_scan changes the stored comment of a scan only to
\* the comment that the blacklist file has for the scan name, which is not
\* empty and differs from the stored one: a stored comment is never
\* replaced by an empty one.  When the call returns a scan that has a
\* comment for which the file has none, the divergence is logged and the
\* comment is left as it is.
C33_BlacklistSync ==
    [][Called("get_add_scan") /\ CanParseFilename(call'[Caller].scan) =>
         /\ \A v \in {store'.session, store'.committed} :
              \A r \in store.session.scans, q \in v.scans :
                 q.id = r.id /\ q.bl_comment # r.bl_comment =>
                    /\ q.bl_comment = FileBlacklistComment(call'[Caller].scan)
                    /\ q.bl_comment # <<>>
         /\ ret'[Caller].exc = "" /\ ret'[Caller].val.t = "Scan" =>
              \A r \in store.session.scans :
                 /\ r.id = ret'[Caller].val.row
                 /\ r.bl_comment # <<>>
                 /\ FileBlacklistComment(call'[Caller].scan) = <<>>
                 => /\ DivergenceLogged(FileBlacklistComment(call'[Caller].scan), r.bl_comment)
                    /\ Row(store'.committed.scans, r.id) = r]_vars

\* get_add_scan has returned a scan that has a comment for which the file
\* has none, with its comment.
C33_Witness ==
    /\ call[Caller].op = "get_add_scan"
    /\ call[Caller].scan = SCAN0
    /\ ret[Caller].exc = "" /\ ret[Caller].val.t = "Scan"
    /\ FileBlacklistComment(SCAN0) = <<>>
    /\ Row(store.committed.scans, ret[Caller].val.row).bl_comment = <<"y">>

\* C34: the blacklist entries that a call of get_subject_metadata reports
\* as missing from the checklist are the entries whose subject has no entry
\* in the checklist; an entry whose subject has one, be its comment empty,
\* is not reported.
C34_OrphanReport ==
    call[Reader].op = "get_subject_metadata" =>
        ReportedMissing(BlacklistRead, [k \in SignedOff(ChecklistRead) |-> {}])
          = {b \in Keys(BlacklistRead) :
                CanParseFilename(b) /\ SubjectOfScan(b) \notin Keys(ChecklistRead)}

\* The array jobs in the queue whose batch file has the line of the subject.
ArrayJobsWith(subid, smap) ==
    {k \in Submissions(job_name_prefix) : Contains(queue[k].input, BatchLine(subid, smap))}

\* C35: in two runs at once, a run writes the batch line of a subject with
\* an image if and only if the marker of the subject's completed output
\* is not there when the run comes to the subject, whatever the other run
\* has written or submitted: the marker is the only guard between runs.
C35_SentinelOnlyGuard ==
    [][\A p \in Procs :
         enigma[p].pc = "batch" /\ enigma'[p].i = enigma[p].i + 1 =>
            LET row == enigma[p].checklist[enigma[p].i]
                cmds == PathJoin(mkdtemp(p), <<"commands.txt">>)
            IN  /\ enigma'[p].cmds # enigma[p].cmds
                   <=> row.FA_nii # None /\ ~isfile(fs, edti_completed(OUTPUT_DIR, row.id, row.FA_nii))
                /\ enigma'[p].cmds # enigma[p].cmds
                   <=> fs'[cmds] = fs[cmds] \o BatchLine(row.id, row.FA_nii)
                /\ enigma'[p].cmds = enigma[p].cmds => fs'[cmds] = fs[cmds]]_vars

\* Both runs are under way, the marker of the subject is not there, and
\* each has written the line of the subject and has submitted its batch
\* file.
C35_Witness ==
    /\ \A p \in Procs :
         /\ enigma[p].pc = "post"
         /\ ~enigma[p].args.dry_run
         /\ \E k \in 1..Len(enigma[p].cmds) : enigma[p].cmds[k] = ID1
    /\ ~isfile(fs, edti_completed(OUTPUT_DIR, ID1, FA1))
    /\ Cardinality(ArrayJobsWith(ID1, FA1)) = 2

\* Both processes have returned from an update of the same file.
BothReturned ==
    /\ \A p \in Procs : wr[p].state = "returned" /\ pc[p] = "idle"
    /\ wr["p1"].path = wr["p2"].path

\* C36: when two concurrent update_checklist (or update_blacklist) calls on
\* the same file have both returned, the file is the one that one of them,
\* the last writer, has written.
C36_LastWriterWins ==
    BothReturned => \E p \in Procs : files[wr[p].path] = Cat(wr[p].lines)

\* Both calls have returned, the file is the one the second caller wrote,
\* and the delta of the other is not in it.
C36_LostUpdate ==
    /\ BothReturned
    /\ call["p1"].op = "update_checklist" /\ call["p2"].op = "update_checklist"
    /\ call["p1"].entries = (ID2 :> <<"x", SP, SP, "y">>)
    /\ call["p2"].entries = (ID1 :> <<"y">>)
    /\ files[CHECKLIST] = Cat(wr["p2"].lines)
    /\ ID2 \notin Keys(ChecklistNow)

\* C37: read_blacklist(subject=s) on the file backend returns the entries
\* of the blacklist whose scan name parses to the subject s, with their
\* comments, and no entry of another subject.
C37_BlacklistOfSubject ==
    FromFile("read_blacklist") /\ call[Reader].scan = None /\ call[Reader].subject # None =>
        LET full == _parse_blacklist(files[BLACKLIST], None, None).d
            own == {b \in Keys(full) : SubjectOfScan(b) = call[Reader].subject}
        IN  ret[Reader].val = DictVal([b \in own |-> full[b]])

\* The writer's call of update_checklist goes to the database.
DashboardUpdate ==
    /\ call'[Writer].op = "update_checklist"
    /\ ncalls' = ncalls + 1
    /\ UseDashboard(dash_found, call'[Writer].path)

\* The subjects of the delta that the database has sessions of.
InDashboard(subject) == CanParse(subject) /\ SessionsOf(db, subject) # {}

\* C38: update_checklist on the database backend changes nothing but the
\* sign-off of sessions: a session changes only if it was not signed off
\* and belongs to a subject of the delta with a comment, and it is then
\* signed off by the default user; an entry whose subject the database
\* does not have raises MetadataException.
C38_DatabaseSignOff ==
    [][DashboardUpdate =>
         LET entries == call'[Writer].entries
         IN  /\ db' = [db EXCEPT !.sessions = db'.sessions]
             /\ Keys(db'.sessions) = Keys(db.sessions)
             /\ \A n \in Keys(db.sessions) :
                  db'.sessions[n] # db.sessions[n] =>
                     /\ ~db.sessions[n].signed_off
                     /\ db'.sessions[n] = Session(TRUE, db.user)
                     /\ \E subject \in Keys(entries) :
                          /\ entries[subject] # <<>>
                          /\ InDashboard(subject) /\ n \in SessionsOf(db, subject)
             /\ (\E subject \in Keys(entries) : ~InDashboard(subject)) =>
                    ret'[Writer].exc = "MetadataException"
             /\ files' = files]_vars

\* An update through the database has returned that named a session
\* already signed off, which keeps its reviewer, while the default user has
\* signed off another session.
C38_Witness ==
    /\ call[Writer].op = "update_checklist"
    /\ touched[Writer] = {DASHBOARD}
    /\ ret[Writer].exc = ""
    /\ call[Writer].entries = (ID1 :> <<"y">>)
    /\ db.sessions[ID1S] = Session(TRUE, <<"x">>)
    /\ db.user = <<"y">>
    /\ db.sessions[ID2 \o <<US, "1">>] = Session(TRUE, <<"y">>)

\* C39: every link row of the store refers to a scan row that the store
\* has: deleting a scan leaves no link to it, of the session cleaned or of
\* another session.
C39_LinksReferToScans ==
    \A l \in store.committed.links : l.scan_id \in ScanIds(store.committed)

\* A session was linked to the scan of another session by
\* get_add_session_scan_link, and the link is in the store.
C39_Linked ==
    /\ call[Caller].op = "get_add_session_scan_link"
    /\ ret[Caller].exc = ""
    /\ LinkRow(1, 2, FALSE, SCAN1ID) \in store.committed.links
    /\ Scan1(1) \in store.committed.scans
    /\ ncalls = 1

\* C40: get_add_session reports every failure by raising
\* DashboardException: a call ends by returning or by that exception, and
\* what it returns is None, for a session that the store does not have and
\* create=False, or a session row of the store.
C40_FailuresRaise ==
    [][Called("get_add_session")
       => LET r == ret'[Caller]
              c == call'[Caller]
          IN  /\ r.exc \in {"", "DashboardException"}
              /\ r.exc = "" =>
                   \/ /\ r.val = NoneVal
                      /\ ~c.create
                      /\ SessionRows(store.session, c.subject) = {}
                   \/ /\ r.val.t = "Session"
                      /\ \E x \in store'.committed.sessions : x.id = r.val.row]_vars

\* A call with create=True whose commit failed has returned None.
C40_NoneOnCommitFailure ==
    /\ call[Caller].op = "get_add_session"
    /\ call[Caller].create
    /\ ret[Caller] = Returned(NoneVal)

====
